---------------------------- MODULE Spec2Model ----------------------------
(***************************************************************************)
(* A model of the query parser of @sillvva/search (src/src/index.ts).      *)
(*                                                                         *)
(* A query is a sequence of one-character strings.  Offsets are 0-based,   *)
(* as in JavaScript: the character at offset p of q is q[p + 1].           *)
(* A capture group that did not take part in a match (undefined in         *)
(* JavaScript) is the empty sequence: every capture group of the scanner's *)
(* pattern matches at least one character, so no group that took part is   *)
(* empty, and both undefined and "" are falsy.                             *)
(***************************************************************************)
EXTENDS Integers, Sequences, FiniteSets, TLC

VARIABLES
    options,        \* this.options of the parser instance
    input,          \* the argument of the current parse call
    pc,             \* the position of the call inside _parse
    query,          \* the local `query` of _parse (normalized)
    rawTokens,      \* the tokens of the scan loop, before the clean-up pass
    tokens,         \* the tokens returned by tokenize
    errors,         \* the errors returned by tokenize
    ast,            \* the result of buildAST
    result,         \* the ParseResult returned by _parse
    calls,          \* the number of parse calls made on the instance
    memo,           \* an earlier call on the instance: its input and result
    adapter,        \* what a subclass instance holds: the data, filterFn, orderFn
    output,         \* what the subclass method returns
    cleanupI,       \* the index i of the clean-up loop
    cursor,         \* the cursor `index` of buildAST
    stack,          \* the calls of parseExpression and parseTerm in progress
    ret             \* the node a call of the builder has returned

vars == <<options, input, pc, query, rawTokens, tokens, errors, ast, result, calls, memo,
          adapter, output, cleanupI, cursor, stack, ret>>

\* The variables of the step-by-step run of the clean-up pass and the builder
stepVars == <<cleanupI, cursor, stack, ret>>

-----------------------------------------------------------------------------
(* Characters *)

Digits == {"0", "1", "2", "3", "4", "5", "6", "7", "8", "9"}

DigitSeq == <<"0", "1", "2", "3", "4", "5", "6", "7", "8", "9">>

LowerSeq ==
    <<"a", "b", "c", "d", "e", "f", "g", "h", "i", "j", "k", "l", "m",
      "n", "o", "p", "q", "r", "s", "t", "u", "v", "w", "x", "y", "z">>

UpperSeq ==
    <<"A", "B", "C", "D", "E", "F", "G", "H", "I", "J", "K", "L", "M",
      "N", "O", "P", "Q", "R", "S", "T", "U", "V", "W", "X", "Y", "Z">>

Range(s) == {s[i] : i \in DOMAIN s}

\* \w of the pattern: [A-Za-z0-9_]
WordChars == Digits \cup Range(LowerSeq) \cup Range(UpperSeq) \cup {"_"}

\* \s of the pattern (the model's inputs use space, tab and newline)
Whitespace == {" ", "\t", "\n"}

DigitVal(c) == (CHOOSE i \in DOMAIN DigitSeq : DigitSeq[i] = c) - 1

UpperChar(c) ==
    IF c \in Range(LowerSeq)
        THEN UpperSeq[CHOOSE i \in DOMAIN LowerSeq : LowerSeq[i] = c]
        ELSE c

\* String.prototype.toUpperCase
ToUpperCase(s) == [i \in DOMAIN s |-> UpperChar(s[i])]

\* The character at 0-based offset p, or "" past the end
At(q, p) == IF p >= 0 /\ p < Len(q) THEN q[p + 1] ELSE ""

\* q.slice(a, b)
Slice(q, a, b) == SubSeq(q, a + 1, b)

NoMatch == -1

-----------------------------------------------------------------------------
(* LOGICAL_OPERATORS and isLogicalOperator *)

LOGICAL_OPERATORS == {<<"A", "N", "D">>, <<"O", "R">>, <<"&">>, <<"|">>}

isLogicalOperator(str) == str \in LOGICAL_OPERATORS

-----------------------------------------------------------------------------
(* The pieces of the scanner's pattern.  Each matcher takes the query and  *)
(* an offset and returns the offset after the match, or NoMatch.           *)

RECURSIVE RunEnd(_, _, _)
\* The offset after the longest run of characters of class cls starting at p
\* (p itself when the run is empty): a greedy cls* .
RunEnd(q, p, cls) ==
    IF At(q, p) \in cls THEN RunEnd(q, p + 1, cls) ELSE p

RECURSIVE RunEndNot(_, _, _)
\* A greedy [^cls]* .
RunEndNot(q, p, cls) ==
    IF p < Len(q) /\ At(q, p) \notin cls THEN RunEndNot(q, p + 1, cls) ELSE p

\* \d{n}
FixedDigits(q, p, n) ==
    IF \A i \in 0 .. (n - 1) : At(q, p + i) \in Digits THEN p + n ELSE NoMatch

\* A literal character
Lit(q, p, c) == IF p # NoMatch /\ At(q, p) = c THEN p + 1 ELSE NoMatch

\* \d{n} after a match that ended at p
ThenDigits(q, p, n) == IF p = NoMatch THEN NoMatch ELSE FixedDigits(q, p, n)

\* x? : the optional piece's end if it matched, else the offset before it
Opt(p, e) == IF e = NoMatch THEN p ELSE e

\* (?:\.\d+)? after a match that ended at p
OptFraction(q, p) ==
    IF p = NoMatch THEN NoMatch
    ELSE IF At(q, p) = "." /\ At(q, p + 1) \in Digits THEN RunEnd(q, p + 1, Digits)
    ELSE p

\* (?::\d{2}(?:\.\d+)?)? after a match that ended at p
OptSeconds(q, p) ==
    IF p = NoMatch THEN NoMatch
    ELSE IF At(q, p) = ":" /\ FixedDigits(q, p + 1, 2) # NoMatch THEN OptFraction(q, p + 3)
    ELSE p

\* (?:Z|[+-]\d{2}:\d{2})? after a match that ended at p
OptZone(q, p) ==
    IF p = NoMatch THEN NoMatch
    ELSE IF At(q, p) = "Z" THEN p + 1
    ELSE IF /\ At(q, p) \in {"+", "-"} /\ FixedDigits(q, p + 1, 2) # NoMatch
            /\ At(q, p + 3) = ":" /\ FixedDigits(q, p + 4, 2) # NoMatch
        THEN p + 6
    ELSE p

\* timeRegex: (?:[T ]\d{2}:\d{2}(?::\d{2}(?:\.\d+)?)?(?:Z|[+-]\d{2}:\d{2})?)
MatchTime(q, p) ==
    IF At(q, p) \notin {"T", " "} THEN NoMatch
    ELSE OptZone(q, OptSeconds(q, ThenDigits(q, Lit(q, FixedDigits(q, p + 1, 2), ":"), 2)))

\* (?:timeRegex)? after a match that ended at p
OptTime(q, p) == IF p = NoMatch THEN NoMatch ELSE Opt(p, MatchTime(q, p))

\* monthRegex: (\d{4}-\d{2})
MatchMonth(q, p) == ThenDigits(q, Lit(q, FixedDigits(q, p, 4), "-"), 2)

\* yearRegex: (\d{4})
MatchYear(q, p) == FixedDigits(q, p, 4)

\* dateTimeRegex: (\d{4}-\d{2}-\d{2}(?:[T ]\d{2}:\d{2}...)?)
MatchDateTime(q, p) == OptTime(q, ThenDigits(q, Lit(q, MatchMonth(q, p), "-"), 2))

\* \d+(?:\.\d+)?
MatchUnsigned(q, p) ==
    IF At(q, p) \notin Digits THEN NoMatch ELSE OptFraction(q, RunEnd(q, p, Digits))

\* numberRegex: (-?\d+(?:\.\d+)?)
MatchNumber(q, p) == IF At(q, p) = "-" THEN MatchUnsigned(q, p + 1) ELSE MatchUnsigned(q, p)

\* rangeRegex: \.{2}
MatchDots(q, p) == Lit(q, Lit(q, p, "."), ".")

\* s.match(timeRegex): the time pattern occurs somewhere in s
HasTime(s) == \E p \in 0 .. Len(s) : MatchTime(s, p) # NoMatch

-----------------------------------------------------------------------------
(* A match of the scanner's pattern: its offset (match.index), the offset  *)
(* after it (the pattern's next lastIndex) and its capture groups, named   *)
(* as tokenize destructures them.                                          *)

GroupNames ==
    {"open", "close", "negation", "keywordRange", "date1", "date2", "month1",
     "month2", "year1", "year2", "numeric1", "numeric2", "keywordNumeric",
     "operator", "dateValue", "monthValue", "yearValue", "numericValue",
     "keyword", "value", "quote", "regex", "other"}

\* A match at [p, e) whose groups are those of g (a record), all others undefined
Matched(p, e, g) ==
    [index |-> p, end |-> e,
     groups |-> [n \in GroupNames |-> IF n \in DOMAIN g THEN g[n] ELSE <<>>]]

Failed == [index |-> NoMatch, end |-> NoMatch, groups |-> [n \in GroupNames |-> <<>>]]

\* (?: |^)?(-?\()   The optional prefix is tried greedily: a space first,
\* then the start of the input, then nothing.
MatchOpen(q, p) ==
    LET body(b) == IF At(q, b) = "-" /\ At(q, b + 1) = "(" THEN b + 2
                   ELSE IF At(q, b) = "(" THEN b + 1 ELSE NoMatch
        b == IF At(q, p) = " " /\ body(p + 1) # NoMatch THEN p + 1 ELSE p
        e == body(b)
    IN  IF e = NoMatch THEN Failed ELSE Matched(p, e, [open |-> Slice(q, b, e)])

\* (\))
MatchClose(q, p) ==
    IF At(q, p) = ")" THEN Matched(p, p + 1, [close |-> <<")">>]) ELSE Failed

\* (?: |^)([-!])
MatchNegation(q, p) ==
    IF At(q, p) = " " /\ At(q, p + 1) \in {"-", "!"}
        THEN Matched(p, p + 2, [negation |-> <<At(q, p + 1)>>])
    ELSE IF p = 0 /\ At(q, p) \in {"-", "!"}
        THEN Matched(p, p + 1, [negation |-> <<At(q, p)>>])
    ELSE Failed

\* A match, or the one an alternative further to the right gives
FirstMatch(m, later) == IF m.index # NoMatch THEN m ELSE later

\* One end of a range: dateTimeRegex, monthRegex, yearRegex or numberRegex,
\* after what ended at p
RangePiece(q, p, piece) ==
    IF p = NoMatch THEN NoMatch
    ELSE IF piece = "date" THEN MatchDateTime(q, p)
    ELSE IF piece = "month" THEN MatchMonth(q, p)
    ELSE IF piece = "year" THEN MatchYear(q, p)
    ELSE MatchNumber(q, p)

\* The offsets <<endA, startB, endB>> of A..B whose A ends at a and B at b
RangeEnds(a, b) == IF b = NoMatch THEN <<NoMatch, NoMatch, NoMatch>> ELSE <<a, a + 2, b>>

\* ..B after an A that ended at a
RangeAfter(q, a, piece) == RangeEnds(a, RangePiece(q, MatchDots(q, a), piece))

\* A..B where both ends match the same piece: the offsets <<endA, startB, endB>>
RangeOf(q, p, piece) == RangeAfter(q, RangePiece(q, p, piece), piece)

\* The range that follows the key q[p..k) and its separator: the first of
\* date, month, year and number ranges that matches
RangeChoice(q, p, k, dr, mr, yr, nr) ==
    IF dr[3] # NoMatch
        THEN Matched(p, dr[3], [keywordRange |-> Slice(q, p, k),
                date1 |-> Slice(q, k + 1, dr[1]), date2 |-> Slice(q, dr[2], dr[3])])
    ELSE IF mr[3] # NoMatch
        THEN Matched(p, mr[3], [keywordRange |-> Slice(q, p, k),
                month1 |-> Slice(q, k + 1, mr[1]), month2 |-> Slice(q, mr[2], mr[3])])
    ELSE IF yr[3] # NoMatch
        THEN Matched(p, yr[3], [keywordRange |-> Slice(q, p, k),
                year1 |-> Slice(q, k + 1, yr[1]), year2 |-> Slice(q, yr[2], yr[3])])
    ELSE IF nr[3] # NoMatch
        THEN Matched(p, nr[3], [keywordRange |-> Slice(q, p, k),
                numeric1 |-> Slice(q, k + 1, nr[1]), numeric2 |-> Slice(q, nr[2], nr[3])])
    ELSE Failed

\* The range pattern for a key that ends at k
RangeAfterKey(q, p, k) ==
    IF k = p \/ At(q, k) \notin {":", "="} THEN Failed
    ELSE RangeChoice(q, p, k, RangeOf(q, k + 1, "date"), RangeOf(q, k + 1, "month"),
                     RangeOf(q, k + 1, "year"), RangeOf(q, k + 1, "number"))

\* (\w+)(?::|=)(?:date..date|month..month|year..year|number..number)
MatchRange(q, p) == RangeAfterKey(q, p, RunEnd(q, p, WordChars))

\* The comparison with key and operator g whose value at v ends at dt as a
\* date, mo as a month, yr as a year, nu as a number
CompareChoice(q, p, v, g, dt, mo, yr, nu) ==
    IF dt # NoMatch THEN Matched(p, dt, g @@ [dateValue |-> Slice(q, v, dt)])
    ELSE IF mo # NoMatch THEN Matched(p, mo, g @@ [monthValue |-> Slice(q, v, mo)])
    ELSE IF yr # NoMatch THEN Matched(p, yr, g @@ [yearValue |-> Slice(q, v, yr)])
    ELSE IF nu # NoMatch THEN Matched(p, nu, g @@ [numericValue |-> Slice(q, v, nu)])
    ELSE Failed

\* The value of a comparison at v, after key and operator: the first of
\* date, month, year, number that matches
CompareValue(q, p, v, key, op) ==
    CompareChoice(q, p, v, [keywordNumeric |-> key, operator |-> op],
                  MatchDateTime(q, v), MatchMonth(q, v), MatchYear(q, v), MatchNumber(q, v))

\* The comparison pattern for a key that ends at k
CompareAfterKey(q, p, k) ==
    IF k = p \/ At(q, k) \notin {":", "=", ">", "<"} THEN Failed
    ELSE IF At(q, k) \in {">", "<"} /\ At(q, k + 1) = "="
        THEN FirstMatch(CompareValue(q, p, k + 2, Slice(q, p, k), <<At(q, k), "=">>),
                        CompareValue(q, p, k + 1, Slice(q, p, k), <<At(q, k)>>))
    ELSE CompareValue(q, p, k + 1, Slice(q, p, k), <<At(q, k)>>)

\* (\w+)(:|=|>=|<=|>|<)(?:date|month|year|number)   The operator
\* alternatives are tried in the order written; a later one is tried when
\* no value follows an earlier one.
MatchCompare(q, p) == CompareAfterKey(q, p, RunEnd(q, p, WordChars))

\* (\w+|[&|])|"([^"]+)"|\/([^\/]+)\/   at v, for a match that starts at p
TextValue(q, p, v, g) ==
    LET w == RunEnd(q, v, WordChars)
        dq == RunEndNot(q, v + 1, {"\""})
        sl == RunEndNot(q, v + 1, {"/"})
    IN  IF w > v THEN Matched(p, w, g @@ [value |-> Slice(q, v, w)])
        ELSE IF At(q, v) \in {"&", "|"} THEN Matched(p, v + 1, g @@ [value |-> <<At(q, v)>>])
        ELSE IF At(q, v) = "\"" /\ dq > v + 1 /\ At(q, dq) = "\""
            THEN Matched(p, dq + 1, g @@ [quote |-> Slice(q, v + 1, dq)])
        ELSE IF At(q, v) = "/" /\ sl > v + 1 /\ At(q, sl) = "/"
            THEN Matched(p, sl + 1, g @@ [regex |-> Slice(q, v + 1, sl)])
        ELSE Failed

\* (?:(\w+):)?(?:(\w+|[&|])|"([^"]+)"|\/([^\/]+)\/)   The key prefix is
\* optional: when no value follows `key:`, the term is matched without it.
MatchText(q, p) ==
    LET k == RunEnd(q, p, WordChars)
        keyed == TextValue(q, p, k + 1, [keyword |-> Slice(q, p, k)])
        none == [x \in {} |-> <<>>]
    IN  IF k > p /\ At(q, k) = ":" /\ keyed.index # NoMatch THEN keyed
        ELSE TextValue(q, p, p, none)

\* ([^\s]+)
MatchOther(q, p) ==
    LET e == RunEndNot(q, p, Whitespace)
    IN  IF e > p THEN Matched(p, e, [other |-> Slice(q, p, e)]) ELSE Failed

\* The whole pattern at offset p: the first alternative that matches there
MatchAt(q, p) ==
    FirstMatch(MatchOpen(q, p),
    FirstMatch(MatchClose(q, p),
    FirstMatch(MatchNegation(q, p),
    FirstMatch(MatchRange(q, p),
    FirstMatch(MatchCompare(q, p),
    FirstMatch(MatchText(q, p), MatchOther(q, p)))))))

RECURSIVE Exec(_, _)
\* regex.exec(query) with lastIndex = from: the first match at or after
\* from, or Failed (null)
Exec(q, from) ==
    IF from > Len(q) THEN Failed ELSE FirstMatch(MatchAt(q, from), Exec(q, from + 1))

-----------------------------------------------------------------------------
(* Numbers.  A number is held in thousandths (1.5 is 1500), which is exact *)
(* for the literals of the model: at most three fraction digits.           *)

NumberScale == 1000

RECURSIVE DigitsValue(_)
\* The value of a run of digits
DigitsValue(s) ==
    IF s = <<>> THEN 0
    ELSE 10 * DigitsValue(SubSeq(s, 1, Len(s) - 1)) + DigitVal(s[Len(s)])

\* The first three fraction digits, in thousandths
FractionValue(f) ==
    DigitsValue(SubSeq(f \o <<"0", "0", "0">>, 1, 3))

\* parseFloat of a string that matches numberRegex
parseFloat(s) ==
    LET neg == s[1] = "-"
        body == IF neg THEN Tail(s) ELSE s
        dot == IF \E i \in DOMAIN body : body[i] = "."
                   THEN CHOOSE i \in DOMAIN body : body[i] = "."
                   ELSE Len(body) + 1
        whole == DigitsValue(SubSeq(body, 1, dot - 1))
        frac == FractionValue(SubSeq(body, dot + 1, Len(body)))
        v == NumberScale * whole + frac
    IN  IF neg THEN 0 - v ELSE v

-----------------------------------------------------------------------------
(* Dates.  An instant is held as its calendar fields, y-mo-d and the       *)
(* millisecond of the day, with the zone they are read in: "utc" for the   *)
(* forms JavaScript reads as UTC (year, month, date, and a time followed   *)
(* by Z or an offset, which is applied), "local" for a time without zone. *)

MsPerDay == 86400000

IsLeap(y) == (y % 4 = 0 /\ y % 100 # 0) \/ y % 400 = 0

DaysInMonth(y, mo) ==
    IF mo = 2 THEN (IF IsLeap(y) THEN 29 ELSE 28)
    ELSE IF mo \in {4, 6, 9, 11} THEN 30 ELSE 31

InvalidDate == [invalid |-> TRUE]

\* isNaN(date.getTime())
IsInvalid(t) == t = InvalidDate

NextDay(t) ==
    IF t.d < DaysInMonth(t.y, t.mo) THEN [t EXCEPT !.d = @ + 1]
    ELSE IF t.mo < 12 THEN [t EXCEPT !.d = 1, !.mo = @ + 1]
    ELSE [t EXCEPT !.d = 1, !.mo = 1, !.y = @ + 1]

PrevDay(t) ==
    IF t.d > 1 THEN [t EXCEPT !.d = @ - 1]
    ELSE IF t.mo > 1 THEN [t EXCEPT !.d = DaysInMonth(t.y, t.mo - 1), !.mo = @ - 1]
    ELSE [t EXCEPT !.d = 31, !.mo = 12, !.y = @ - 1]

\* The instant delta milliseconds after t, for -MsPerDay <= delta <= MsPerDay
AddMs(t, delta) ==
    LET ms == t.ms + delta
    IN  IF ms < 0 THEN [PrevDay(t) EXCEPT !.ms = ms + MsPerDay]
        ELSE IF ms >= MsPerDay THEN [NextDay(t) EXCEPT !.ms = ms - MsPerDay]
        ELSE [t EXCEPT !.ms = ms]

\* date.setUTCDate(date.getUTCDate() + 1)
AddUTCDate(t) == NextDay(t)

\* date.setUTCMonth(date.getUTCMonth() + 1), for the first day of a month
AddUTCMonth(t) ==
    IF t.mo < 12 THEN [t EXCEPT !.mo = @ + 1] ELSE [t EXCEPT !.mo = 1, !.y = @ + 1]

\* date.setUTCFullYear(date.getUTCFullYear() + 1), for the first day of a year
AddUTCFullYear(t) == [t EXCEPT !.y = @ + 1]

\* An end that is left at the start of the next period
KeepMilliseconds(t) == t

\* date.setMilliseconds(-1): the last millisecond of the previous second
SetMillisecondsMinus1(t) == AddMs(t, 0 - (t.ms % 1000) - 1)

\* The time part tm of a literal is [T ]hh:mm, then optional :ss, .fff and
\* zone.  The offset in tm at which the zone would start:
ZoneStart(tm) == IF Len(tm) >= 9 /\ tm[7] = ":" THEN OptFraction(tm, 9) ELSE 6

\* The offset of a zone at z from UTC, in ms
ZoneOffset(tm, z) ==
    IF At(tm, z) \in {"+", "-"}
        THEN (IF At(tm, z) = "-" THEN -1 ELSE 1)
             * (DigitsValue(Slice(tm, z + 1, z + 3)) * 3600000
                + DigitsValue(Slice(tm, z + 4, z + 6)) * 60000)
        ELSE 0

\* The time of day in ms, the offset and the zone of a time of hh hours, mi
\* minutes, ss seconds and fr ms; ms = -1 when a field is out of range
TimeFields(hh, mi, ss, fr, off, zone) ==
    IF hh > 23 \/ mi > 59 \/ ss > 59 \/ off >= MsPerDay \/ 0 - off >= MsPerDay
        THEN [ms |-> -1, off |-> 0, zone |-> ""]
        ELSE [ms |-> ((hh * 60 + mi) * 60 + ss) * 1000 + fr, off |-> off, zone |-> zone]

\* The time part tm whose zone starts at z
TimeAt(tm, z) ==
    TimeFields(DigitsValue(SubSeq(tm, 2, 3)),
               DigitsValue(SubSeq(tm, 5, 6)),
               IF z >= 9 THEN DigitsValue(SubSeq(tm, 8, 9)) ELSE 0,
               IF z > 9 THEN FractionValue(Slice(tm, 10, z)) ELSE 0,
               ZoneOffset(tm, z),
               IF At(tm, z) \in {"Z", "+", "-"} THEN "utc" ELSE "local")

\* The time of day, offset and zone of the time part tm of a literal
TimeOf(tm) == TimeAt(tm, ZoneStart(tm))

\* The instant of the calendar fields y, mo, d and the time tm; a month
\* in 1..12 and a day that exists are required
DateOf(y, mo, d, tm) ==
    IF mo < 1 \/ mo > 12 \/ d < 1 \/ d > DaysInMonth(y, mo) \/ tm.ms < 0
        THEN InvalidDate
        ELSE AddMs([y |-> y, mo |-> mo, d |-> d, ms |-> tm.ms, zone |-> tm.zone], 0 - tm.off)

\* new Date(s) for a string matching yearRegex, monthRegex or dateTimeRegex;
\* new Date("") is invalid.
NewDate(s) ==
    IF Len(s) < 4 THEN InvalidDate
    ELSE DateOf(DigitsValue(SubSeq(s, 1, 4)),
                IF Len(s) >= 7 THEN DigitsValue(SubSeq(s, 6, 7)) ELSE 1,
                IF Len(s) >= 10 THEN DigitsValue(SubSeq(s, 9, 10)) ELSE 1,
                IF Len(s) > 10 THEN TimeOf(SubSeq(s, 11, Len(s)))
                ELSE [ms |-> 0, off |-> 0, zone |-> "utc"])

-----------------------------------------------------------------------------
(* tokenize: the scan loop *)

\* a || b || ... for strings: the first non-empty one, or undefined
FirstTruthy(ss) ==
    IF \E i \in DOMAIN ss : ss[i] # <<>>
        THEN ss[CHOOSE i \in DOMAIN ss : ss[i] # <<>> /\ \A j \in 1 .. (i - 1) : ss[j] = <<>>]
        ELSE <<>>

TypeAt(toks, i) == IF i \in DOMAIN toks THEN toks[i].type ELSE ""

\* tokens.at(-1)?.type === "negation"
LastIsNegation(toks) == TypeAt(toks, Len(toks)) = "negation"

\* A tokenizer that leaves the negation before a rejected term in place
KeepNegation(toks) == toks

\* if (tokens.at(-1)?.type === "negation") tokens.pop();
PopNegation(toks) ==
    IF LastIsNegation(toks) THEN SubSeq(toks, 1, Len(toks) - 1) ELSE toks

\* this.options?.validKeys && !this.options.validKeys.includes(key)
KeyRejected(opts, key) == opts.hasValidKeys /\ key \notin opts.validKeys

InvalidKeyError(key, position, value) ==
    [type |-> "invalid_key", message |-> <<"Invalid key: ", key>>,
     position |-> position, key |-> key, value |-> value]

SyntaxError(position, value) ==
    [type |-> "syntax", message |-> "Unexpected syntax", position |-> position, value |-> value]

\* A date period emitted like a numeric range: the two bounds, no group
DateGroupTokensFlat(toks, key, start, end, position) ==
    toks \o
        << [type |-> "keyword_date", key |-> key, operator |-> <<">", "=">>,
            value |-> start, position |-> position],
           [type |-> "keyword_date", key |-> key, operator |-> <<"<", "=">>,
            value |-> end, position |-> position] >>

\* The four tokens of a date range or of an equality on a coarse date; a
\* negation token just before them becomes negated: true on the open_paren.
DateGroupTokens(toks, key, start, end, position) ==
    LET open == IF LastIsNegation(toks)
                    THEN [type |-> "open_paren", negated |-> TRUE, position |-> position]
                    ELSE [type |-> "open_paren", position |-> position]
    IN  PopNegation(toks) \o
        << open,
           [type |-> "keyword_date", key |-> key, operator |-> <<">", "=">>,
            value |-> start, position |-> position],
           [type |-> "keyword_date", key |-> key, operator |-> <<"<", "=">>,
            value |-> end, position |-> position],
           [type |-> "close_paren", position |-> position] >>

\* The end of the period that starts at the instant end: a date without time
\* spans a day, a month a month, a year a year; the end is its last ms.
PeriodEnd(end, dateStr, monthStr, yearStr) ==
    IF dateStr # <<>> /\ ~HasTime(dateStr) THEN SetMillisecondsMinus1(AddUTCDate(end))
    ELSE IF monthStr # <<>> THEN SetMillisecondsMinus1(AddUTCMonth(end))
    ELSE IF yearStr # <<>> THEN SetMillisecondsMinus1(AddUTCFullYear(end))
    ELSE end

\* operator === ":" ? "=" : operator
NumericOp(op) == IF op = <<":">> THEN <<"=">> ELSE op

\* The branch `keyword && (value || quote || regex)`
KeywordBranch(opts, st, m) ==
    LET g == m.groups
    IN  IF KeyRejected(opts, g.keyword)
            THEN [tokens |-> PopNegation(st.tokens),
                  errors |-> Append(st.errors,
                      InvalidKeyError(g.keyword, m.index, FirstTruthy(<<g.value, g.quote, g.regex>>)))]
        ELSE [st EXCEPT !.tokens = Append(@,
                [type |-> IF g.value # <<>> THEN "keyword"
                          ELSE IF g.quote # <<>> THEN "keyword_phrase" ELSE "keyword_regex",
                 key |-> g.keyword,
                 value |-> FirstTruthy(<<g.value, g.quote, g.regex>>),
                 position |-> m.index])]

\* The tokens of a date range from start to the end of the period of end
DateRangeTokens(st, m, start, end) ==
    IF IsInvalid(start) \/ IsInvalid(end) THEN st
    ELSE [st EXCEPT !.tokens = DateGroupTokens(@, m.groups.keywordRange, start,
            PeriodEnd(end, m.groups.date1, m.groups.month1, m.groups.year1), m.index)]

\* The branch `keywordRange`
RangeBranch(opts, st, m) ==
    LET g == m.groups
    IN  IF KeyRejected(opts, g.keywordRange)
            THEN [tokens |-> PopNegation(st.tokens),
                  errors |-> Append(st.errors,
                      InvalidKeyError(g.keywordRange, m.index,
                          FirstTruthy(<<g.date1, g.date2, g.month1, g.month2, g.year1, g.year2>>)))]
        ELSE IF \/ (g.date1 # <<>> /\ g.date2 # <<>>) \/ (g.month1 # <<>> /\ g.month2 # <<>>)
                \/ (g.year1 # <<>> /\ g.year2 # <<>>)
            THEN DateRangeTokens(st, m, NewDate(FirstTruthy(<<g.date1, g.month1, g.year1>>)),
                                 NewDate(FirstTruthy(<<g.date2, g.month2, g.year2>>)))
        ELSE IF g.numeric1 # <<>> /\ g.numeric2 # <<>>
            THEN [st EXCEPT !.tokens = @ \o
                    << [type |-> "keyword_numeric", key |-> g.keywordRange, operator |-> <<">", "=">>,
                        value |-> parseFloat(g.numeric1), position |-> m.index],
                       [type |-> "keyword_numeric", key |-> g.keywordRange, operator |-> <<"<", "=">>,
                        value |-> parseFloat(g.numeric2), position |-> m.index] >>]
        ELSE st

\* The branch `keywordNumeric && operator && numericValue`
NumericBranch(opts, st, m) ==
    LET g == m.groups
    IN  IF KeyRejected(opts, g.keywordNumeric)
            THEN [tokens |-> PopNegation(st.tokens),
                  errors |-> Append(st.errors,
                      InvalidKeyError(g.keywordNumeric, m.index, g.numericValue))]
        ELSE [st EXCEPT !.tokens = Append(@,
                [type |-> "keyword_numeric", key |-> g.keywordNumeric,
                 operator |-> NumericOp(g.operator),
                 value |-> parseFloat(g.numericValue), position |-> m.index])]

\* One keyword_date token
DateToken(st, m, o, v) ==
    [st EXCEPT !.tokens = Append(@,
        [type |-> "keyword_date", key |-> m.groups.keywordNumeric, operator |-> o,
         value |-> v, position |-> m.index])]

\* The tokens of a comparison op with the date start, whose period ends at end
DateTokens(st, m, op, start, end) ==
    IF IsInvalid(start) THEN st
    ELSE IF op \in {<<"<">>, <<">", "=">>} THEN DateToken(st, m, op, start)
    ELSE IF op \in {<<"<", "=">>, <<">">>} THEN DateToken(st, m, op, end)
    ELSE IF m.groups.dateValue # <<>> /\ HasTime(m.groups.dateValue)
        THEN DateToken(st, m, <<"=">>, start)
    ELSE [st EXCEPT !.tokens = DateGroupTokens(@, m.groups.keywordNumeric, start, end, m.index)]

\* The period of the date start of a comparison
DatePeriod(st, m, start) ==
    DateTokens(st, m, NumericOp(m.groups.operator), start,
               PeriodEnd(start, m.groups.dateValue, m.groups.monthValue, m.groups.yearValue))

\* The branch `keywordNumeric && operator && (dateValue || monthValue || yearValue)`
DateBranch(opts, st, m) ==
    LET g == m.groups
    IN  IF KeyRejected(opts, g.keywordNumeric)
            THEN [tokens |-> PopNegation(st.tokens),
                  errors |-> Append(st.errors,
                      InvalidKeyError(g.keywordNumeric, m.index,
                          FirstTruthy(<<g.dateValue, g.monthValue, g.yearValue>>)))]
        ELSE DatePeriod(st, m, NewDate(FirstTruthy(<<g.dateValue, g.monthValue, g.yearValue>>)))

\* A keyless branch that never looks at defaultKey
KeylessBranchPlain(opts, st, m) ==
    LET g == m.groups
        plain(t, v) == [type |-> t, value |-> v, position |-> m.index]
        tok == IF g.value # <<>>
                   THEN IF isLogicalOperator(ToUpperCase(g.value))
                            THEN plain("operator", ToUpperCase(g.value))
                        ELSE plain("word", g.value)
               ELSE IF g.quote # <<>> THEN plain("phrase", g.quote)
               ELSE plain("regex", g.regex)
    IN  [st EXCEPT !.tokens = Append(@, tok)]

\* The branches `value`, `quote`, `regex` of a term without key
KeylessBranch(opts, st, m) ==
    LET g == m.groups
        keyed(t, v) == [type |-> t, key |-> opts.defaultKey, value |-> v, position |-> m.index]
        plain(t, v) == [type |-> t, value |-> v, position |-> m.index]
        tok == IF g.value # <<>>
                   THEN IF isLogicalOperator(ToUpperCase(g.value))
                            THEN plain("operator", ToUpperCase(g.value))
                        ELSE IF opts.defaultKey # <<>> THEN keyed("keyword", g.value)
                        ELSE plain("word", g.value)
               ELSE IF g.quote # <<>>
                   THEN IF opts.defaultKey # <<>> THEN keyed("keyword_phrase", g.quote)
                        ELSE plain("phrase", g.quote)
               ELSE IF opts.defaultKey # <<>> THEN keyed("keyword_regex", g.regex)
                    ELSE plain("regex", g.regex)
    IN  [st EXCEPT !.tokens = Append(@, tok)]

\* The body of the scan loop for one match m: the tokens and errors after it
ScanMatch(opts, st, m) ==
    LET g == m.groups
    IN  IF g.other # <<>>
            THEN [st EXCEPT !.errors = Append(@, SyntaxError(m.index, g.other))]
        ELSE IF g.open # <<>>
            THEN [st EXCEPT !.tokens = Append(@,
                    [type |-> "open_paren", negated |-> g.open[1] \in {"-", "!"},
                     position |-> m.index])]
        ELSE IF g.close # <<>>
            THEN [st EXCEPT !.tokens = Append(@, [type |-> "close_paren", position |-> m.index])]
        ELSE IF g.negation # <<>>
            THEN [st EXCEPT !.tokens = Append(@, [type |-> "negation", position |-> m.index])]
        ELSE IF g.keyword # <<>> /\ FirstTruthy(<<g.value, g.quote, g.regex>>) # <<>>
            THEN KeywordBranch(opts, st, m)
        ELSE IF g.keywordRange # <<>> THEN RangeBranch(opts, st, m)
        ELSE IF g.keywordNumeric # <<>> /\ g.operator # <<>> /\ g.numericValue # <<>>
            THEN NumericBranch(opts, st, m)
        ELSE IF g.keywordNumeric # <<>> /\ g.operator # <<>>
                /\ FirstTruthy(<<g.dateValue, g.monthValue, g.yearValue>>) # <<>>
            THEN DateBranch(opts, st, m)
        ELSE IF FirstTruthy(<<g.value, g.quote, g.regex>>) # <<>> THEN KeylessBranch(opts, st, m)
        ELSE st

\* A tokenizer whose token list outlives the call: it starts from the
\* tokens the previous call left
StaleScanState == [tokens |-> rawTokens, errors |-> <<>>]

\* const errors = []; const tokens = [];  Both lists are locals of tokenize,
\* created empty by every call.
FreshScanState == [tokens |-> <<>>, errors |-> <<>>]

RECURSIVE ScanLoop(_, _, _, _), ScanStep(_, _, _, _)

\* A scan that gives up at the first run it cannot read
ScanStepAbort(opts, q, st, m) ==
    IF m.index = NoMatch THEN st
    ELSE IF m.groups.other # <<>> THEN ScanMatch(opts, st, m)
    ELSE ScanLoop(opts, q, ScanMatch(opts, st, m), m.end)

\* One turn of the loop with the match m that exec returned
ScanStep(opts, q, st, m) ==
    IF m.index = NoMatch THEN st ELSE ScanLoop(opts, q, ScanMatch(opts, st, m), m.end)

\* while ((match = regex.exec(query))) { ... } from lastIndex
ScanLoop(opts, q, st, lastIndex) == ScanStep(opts, q, st, Exec(q, lastIndex))

\* tokenize up to the clean-up pass.  query.match(regex) is null exactly
\* when the first exec finds nothing.
Scan(opts, q) ==
    IF Exec(q, 0).index = NoMatch
        THEN [FreshScanState EXCEPT !.errors = Append(@, SyntaxError(0, q))]
        ELSE ScanLoop(opts, q, FreshScanState, 0)

-----------------------------------------------------------------------------
(* tokenize: the clean-up pass *)

\* tokens.splice(i, n) for a 0-based index i >= 0
Splice(toks, i, n) == SubSeq(toks, 1, i) \o SubSeq(toks, i + n + 1, Len(toks))

\* An iteration whose second branch steps back without removing the operator
CleanupStepNoRemoval(toks, i) ==
    LET ti == TypeAt(toks, i + 1)
        tn == TypeAt(toks, i + 2)
        cut == Splice(toks, i, 2)
    IN  IF ti = "open_paren" /\ tn = "close_paren"
            THEN [tokens |-> IF TypeAt(cut, i) = "negation" THEN Splice(cut, i - 1, 1) ELSE cut,
                  i |-> i]
        ELSE IF ti = "operator" /\ tn \in {"operator", "close_paren"}
            THEN [tokens |-> toks, i |-> i]
        ELSE IF ti = "open_paren" /\ tn = "operator"
            THEN [tokens |-> Splice(toks, i + 1, 1), i |-> i + 1]
        ELSE [tokens |-> toks, i |-> i + 1]

\* One iteration of the clean-up loop at 0-based index i, with the loop's
\* i++ : the token list and the index of the next iteration.
CleanupStep(toks, i) ==
    LET ti == TypeAt(toks, i + 1)
        tn == TypeAt(toks, i + 2)
        cut == Splice(toks, i, 2)
    IN  IF ti = "open_paren" /\ tn = "close_paren"
            THEN [tokens |-> IF TypeAt(cut, i) = "negation" THEN Splice(cut, i - 1, 1) ELSE cut,
                  i |-> i]
        ELSE IF ti = "operator" /\ tn \in {"operator", "close_paren"}
            THEN [tokens |-> Splice(toks, i, 1), i |-> i]
        ELSE IF ti = "open_paren" /\ tn = "operator"
            THEN [tokens |-> Splice(toks, i + 1, 1), i |-> i + 1]
        ELSE [tokens |-> toks, i |-> i + 1]

RECURSIVE CleanupLoop(_, _)
\* for (let i = 0; i < tokens.length; i++) { ... }
CleanupLoop(toks, i) ==
    IF i < Len(toks)
        THEN LET s == CleanupStep(toks, i) IN CleanupLoop(s.tokens, s.i)
        ELSE toks

Cleanup(toks) == CleanupLoop(toks, 0)

\* return { tokens, errors } for the scan s; raw is the token list before
\* the clean-up pass
TokenizeResult(s) == [raw |-> s.tokens, tokens |-> Cleanup(s.tokens), errors |-> s.errors]

\* tokenize(query)
Tokenize(opts, q) == TokenizeResult(Scan(opts, q))

-----------------------------------------------------------------------------
(* buildAST.  The closures share the cursor `index`; here each function    *)
(* takes the cursor and returns the node with the cursor after it.         *)

Null == [type |-> "null"]

ConditionTokens ==
    {"keyword", "keyword_phrase", "keyword_regex", "keyword_numeric", "keyword_date",
     "word", "phrase", "regex"}

\* node.negated = true
SetNegated(node) ==
    [f \in DOMAIN node \cup {"negated"} |-> IF f = "negated" THEN TRUE ELSE node[f]]

\* token.negated, which is undefined for a token without the field
TokenNegated(tok) == IF "negated" \in DOMAIN tok THEN tok.negated ELSE FALSE

\* node.negated === true
NodeNegated(node) == IF "negated" \in DOMAIN node THEN node.negated ELSE FALSE

isStartOfTerm(toks, index) ==
    index < Len(toks) /\ TypeAt(toks, index + 1) \notin {"close_paren", "operator"}

\* The ConditionNode of a condition-bearing token
ConditionNode(tok) ==
    IF tok.type \in {"keyword", "keyword_phrase", "keyword_regex"}
        THEN [type |-> "condition", token |-> tok.type, key |-> tok.key,
              value |-> tok.value, position |-> tok.position]
    ELSE IF tok.type \in {"keyword_numeric", "keyword_date"}
        THEN [type |-> "condition", token |-> tok.type, key |-> tok.key,
              value |-> tok.value, operator |-> tok.operator, position |-> tok.position]
    ELSE [type |-> "condition", token |-> tok.type, value |-> tok.value,
          position |-> tok.position]

BinaryNode(operator, left, right) ==
    [type |-> "binary", operator |-> operator, left |-> left, right |-> right]

\* A builder that joins two adjacent terms with OR
ImplicitOperatorOr == <<"O", "R">>

\* operator = "AND" for a term that follows another without an operator
ImplicitOperator == <<"A", "N", "D">>

RECURSIVE parseExpression(_, _), parseTerm(_, _), parseRest(_, _, _)

\* A builder that takes everything after an operator as its right operand
parseRestRight(toks, left, index) ==
    IF index >= Len(toks) \/ TypeAt(toks, index + 1) = "close_paren"
        THEN [node |-> left, index |-> index]
    ELSE LET isOp == TypeAt(toks, index + 1) = "operator"
             operator == IF isOp THEN toks[index + 1].value ELSE ImplicitOperator
             right == parseExpression(toks, IF isOp THEN index + 1 ELSE index)
         IN  IF right.node = Null
                 THEN [node |-> left, index |-> right.index]
                 ELSE [node |-> BinaryNode(operator, left, right.node), index |-> right.index]

\* The while loop of parseExpression, with `left` built so far
parseRest(toks, left, index) ==
    IF index >= Len(toks) \/ TypeAt(toks, index + 1) = "close_paren"
        THEN [node |-> left, index |-> index]
    ELSE IF TypeAt(toks, index + 1) = "operator" \/ isStartOfTerm(toks, index)
        THEN LET isOp == TypeAt(toks, index + 1) = "operator"
                 operator == IF isOp THEN toks[index + 1].value ELSE ImplicitOperator
                 right == parseTerm(toks, IF isOp THEN index + 1 ELSE index)
             IN  IF right.node = Null
                     THEN [node |-> left, index |-> right.index]
                     ELSE parseRest(toks, BinaryNode(operator, left, right.node), right.index)
    ELSE [node |-> left, index |-> index]

parseExpression(toks, index) ==
    LET left == parseTerm(toks, index)
    IN  IF left.node = Null THEN left ELSE parseRest(toks, left.node, left.index)

\* const token = tokens[index++]; switch (token.type) ...
parseTerm(toks, index) ==
    IF index >= Len(toks) THEN [node |-> Null, index |-> index + 1]
    ELSE LET token == toks[index + 1]
         IN  IF token.type = "negation"
                 THEN LET negatedTerm == parseTerm(toks, index + 1)
                      IN  IF negatedTerm.node # Null
                              THEN [negatedTerm EXCEPT !.node = SetNegated(@)]
                              ELSE negatedTerm
             ELSE IF token.type = "open_paren"
                 THEN LET expr == parseExpression(toks, index + 1)
                      IN  [node |-> IF expr.node # Null /\ TokenNegated(token)
                                        THEN SetNegated(expr.node) ELSE expr.node,
                           index |-> expr.index + 1]
             ELSE IF token.type \in ConditionTokens
                 THEN [node |-> ConditionNode(token), index |-> index + 1]
             ELSE [node |-> Null, index |-> index + 1]

buildAST(toks) == parseExpression(toks, 0).node

-----------------------------------------------------------------------------
(* extractConditions *)

\* An extractor that takes every value for a value
TruthyAlways(node) == TRUE

\* if (ast.value): a string is truthy unless empty, a number unless 0,
\* a Date always
Truthy(node) ==
    IF node.token = "keyword_numeric" THEN node.value # 0
    ELSE IF node.token = "keyword_date" THEN TRUE
    ELSE node.value # <<>>

\* The ASTCondition of a condition node.  key and operator are undefined
\* (absent) when the node has none.
ASTCondition(node, isNegated) ==
    LET base == [value |-> node.value,
                 isNegated |-> isNegated,
                 isRegex |-> node.token \in {"regex", "keyword_regex"},
                 isNumeric |-> node.token = "keyword_numeric",
                 isDate |-> node.token = "keyword_date",
                 position |-> node.position]
        k == IF "key" \in DOMAIN node THEN [key |-> node.key] ELSE [x \in {} |-> 0]
        o == IF "operator" \in DOMAIN node THEN [operator |-> node.operator] ELSE [x \in {} |-> 0]
    IN  base @@ k @@ o

RECURSIVE extractConditions(_, _)

\* An extractor that visits the right subtree before the left one
extractConditionsRightFirst(node, parentNegated) ==
    IF node = Null THEN <<>>
    ELSE LET isNegated == parentNegated \/ NodeNegated(node)
         IN  IF node.type = "binary"
                 THEN extractConditions(node.right, isNegated)
                      \o extractConditions(node.left, isNegated)
             ELSE IF Truthy(node) THEN <<ASTCondition(node, isNegated)>>
             ELSE <<>>

extractConditions(node, parentNegated) ==
    IF node = Null THEN <<>>
    ELSE LET isNegated == parentNegated \/ NodeNegated(node)
         IN  IF node.type = "binary"
                 THEN extractConditions(node.left, isNegated)
                      \o extractConditions(node.right, isNegated)
             ELSE IF Truthy(node) THEN <<ASTCondition(node, isNegated)>>
             ELSE <<>>

-----------------------------------------------------------------------------
(* normalizeQuery *)

RECURSIVE CollapseWhitespace(_)
\* str.replace(/\s+/g, " ")
CollapseWhitespace(str) ==
    IF str = <<>> THEN <<>>
    ELSE IF str[1] \in Whitespace
        THEN <<" ">> \o CollapseWhitespace(Slice(str, RunEnd(str, 0, Whitespace), Len(str)))
    ELSE <<str[1]>> \o CollapseWhitespace(Tail(str))

\* str.trim()
Trim(str) ==
    LET a == RunEnd(str, 0, Whitespace)
        b == CHOOSE e \in a .. Len(str) :
                /\ \A i \in e .. (Len(str) - 1) : At(str, i) \in Whitespace
                /\ (e = a \/ At(str, e - 1) \notin Whitespace)
    IN  Slice(str, a, b)

\* A normalizer that only trims
TrimOnly(str) == Trim(str)

normalizeQuery(str) == Trim(CollapseWhitespace(str))

-----------------------------------------------------------------------------
(* The parser instances and the inputs of the model *)

KeyK == <<"k">>
KeyX == <<"x">>
KeyD == <<"d">>

NoOptions == [hasValidKeys |-> FALSE, validKeys |-> {}, defaultKey |-> <<>>]

\* new QueryParser(options): no options, an allow-list, a default key, and
\* both with the default key outside and inside the allow-list
Configs ==
    { NoOptions,
      [hasValidKeys |-> TRUE, validKeys |-> {KeyK}, defaultKey |-> <<>>],
      [hasValidKeys |-> FALSE, validKeys |-> {}, defaultKey |-> KeyD],
      [hasValidKeys |-> TRUE, validKeys |-> {KeyK}, defaultKey |-> KeyD],
      [hasValidKeys |-> TRUE, validKeys |-> {KeyK}, defaultKey |-> KeyK] }

RECURSIVE Join(_, _)
\* The lexemes of ls written one after the other with sep between them
Join(ls, sep) ==
    IF ls = <<>> THEN <<>>
    ELSE IF Len(ls) = 1 THEN ls[1]
    ELSE ls[1] \o sep \o Join(Tail(ls), sep)

\* All sequences of at most n elements of S
SeqsUpTo(S, n) == UNION {[1 .. k -> S] : k \in 0 .. n}

MaxChars == 4
MaxLogicTerms == 5
MaxGroupTerms == 4
MaxKeyTerms == 2
MaxRangeTerms == 3
MaxDigits == 4
MaxYears == 2

\* Raw inputs, character by character
CharAlphabet == {"a", " ", "-", "(", ")", ":", "~"}

CharInputs == SeqsUpTo(CharAlphabet, MaxChars)

\* Queries of words, operators and negations
LogicLexicon == { <<"a">>, <<"A", "N", "D">>, <<"O", "R">>, <<"-">> }

LogicInputs == {Join(ls, <<" ">>) : ls \in SeqsUpTo(LogicLexicon, MaxLogicTerms)}

\* Queries of words, operators, negations and groups
GroupLexicon == { <<"a">>, <<"o", "r">>, <<"-">>, <<"(">>, <<")">>, <<"!", "(">> }

GroupInputs == {Join(ls, <<" ">>) : ls \in SeqsUpTo(GroupLexicon, MaxGroupTerms)}

\* Queries of terms with a key inside (k) and outside (x) the allow-list
KeyLexicon ==
    { <<"a">>, <<"-">>, <<"/", "a", "/">>,
      <<"k", ":", "a">>, <<"x", ":", "a">>,
      <<"x", ":", "\"", "a", " ", "b", "\"">>,
      <<"x", ">", "5">>,
      <<"x", "=", "1", ".", ".", "2">> }

KeyInputs == {Join(ls, <<" ">>) : ls \in SeqsUpTo(KeyLexicon, MaxKeyTerms)}

\* Queries with numeric and date ranges
RangeLexicon ==
    { <<"a">>, <<"o", "r">>, <<"-">>, <<"-", "(">>, <<")">>,
      <<"k", ":", "1", ".", ".", "2">>,
      <<"k", ":", "0", ".", ".", "1", ".", "5">>,
      <<"k", ":", "2", "0", "2", "4", ".", ".", "2", "0", "2", "5">>,
      <<"k", "=", "2", "0", "2", "4", "-", "0", "2", ".", ".", "2", "0", "2", "4", "-", "1", "2">> }

RangeInputs == {Join(ls, <<" ">>) : ls \in SeqsUpTo(RangeLexicon, MaxRangeTerms)}

\* The comparison operators a term can be written with
Comparators == { <<":">>, <<"=">>, <<">">>, <<"<">>, <<">", "=">>, <<"<", "=">> }

\* Number literals: optional minus, up to MaxDigits digits, optional fraction
NumberLiterals ==
    { sign \o int \o frac :
        sign \in {<<>>, <<"-">>},
        int \in SeqsUpTo({"0", "2"}, MaxDigits) \ {<<>>},
        frac \in {<<>>, <<".", "0">>, <<".", "5">>} }

\* Comparisons of the key x with a number literal
NumericInputs == { <<"x">> \o op \o n : op \in Comparators, n \in NumberLiterals }

\* The four digits of a year
YearText(y) ==
    << DigitSeq[((y \div 1000) % 10) + 1], DigitSeq[((y \div 100) % 10) + 1],
       DigitSeq[((y \div 10) % 10) + 1], DigitSeq[(y % 10) + 1] >>

\* The years of the date literals: 2023, the leap year 2024, ...
DateYears == { YearText(2023 + i) : i \in 0 .. (MaxYears - 1) }

\* Months, one of them out of range
DateMonths == { <<"-", "0", "2">>, <<"-", "1", "2">>, <<"-", "1", "3">> }

\* Days, the last of February but one and the last of the year among them
DateDays ==
    { <<"-", "0", "2", "-", "0", "1">>, <<"-", "0", "2", "-", "2", "8">>,
      <<"-", "1", "2", "-", "3", "1">>, <<"-", "1", "3", "-", "0", "1">> }

\* Times of day: local, UTC with seconds and fraction, and with an offset
DateTimes ==
    { <<"T", "1", "0", ":", "3", "0">>,
      <<"T", "2", "3", ":", "5", "9", ":", "5", "9", ".", "5", "Z">>,
      <<" ", "1", "0", ":", "3", "0", "+", "0", "2", ":", "0", "0">> }

\* Date literals of every granularity
DateLiterals ==
    { y \o md : y \in DateYears, md \in {<<>>} \cup DateMonths \cup DateDays }
        \cup { y \o md \o t : y \in DateYears, md \in DateDays, t \in DateTimes }

\* What stands before a date comparison in a query
DatePrefixes ==
    { <<>>, <<"-">>, <<"a", " ">>, <<"a", " ", "o", "r", " ">>,
      <<"a", " ", "o", "r", " ", "-">> }

\* Comparisons of the key d with a date literal, alone and after other terms
DateInputs ==
    { pre \o <<"d">> \o op \o lit :
        pre \in DatePrefixes, op \in Comparators, lit \in DateLiterals }

\* Keyless words, phrases and regexes, operator spellings and a keyed term
DefaultKeyLexicon ==
    { <<"a">>, <<"\"", "a", " ", "b", "\"">>, <<"/", "a", "/">>,
      <<"a", "n", "d">>, <<"O", "r">>, <<"&">>, <<"|">>,
      <<"x", ":", "a">>, <<"k", ":", "o", "r">> }

DefaultKeyInputs == {Join(ls, <<" ">>) : ls \in SeqsUpTo(DefaultKeyLexicon, MaxKeyTerms)}

\* The queries of the specification's scenarios, of the documentation and
\* of the tests, and queries that reach the deeper paths of the builder
ScenarioInputs ==
    { <<"a", "u", "t", "h", "o", "r", ":", "T", "o", "l", "k", "i", "e", "n", " ", "-", "t", "i", "t", "l", "e", ":", "\"", "T", "h", "e", " ", "H", "o", "b", "b", "i", "t", "\"">>,
      <<"h", "e", "l", "l", "o", " ", "w", "o", "r", "l", "d">>,
      <<"a", " ", "O", "R", " ", "b", " ", "A", "N", "D", " ", "c">>,
      <<"f", "o", "o", " ", "A", "N", "D", " ", "b", "a", "r", " ", "O", "R", " ", "b", "a", "z">>,
      <<"f", "o", "o", " ", "(", "b", "a", "r", " ", "o", "r", " ", "b", "a", "z", ")">>,
      <<"-", "(", "a", " ", "-", " ", "o", "r", " ", "b", " ", "c", ")">>,
      <<"!", "(", "a", " ", "b", ")">>,
      <<"-", "i", "n", "v", "a", "l", "i", "d", ":", "v", "a", "l", "u", "e">>,
      <<"i", "n", "v", "a", "l", "i", "d", ":", "v", "a", "l", "u", "e">>,
      <<"h", "e", "l", "l", "o", "~", "w", "o", "r", "l", "d">>,
      <<"p", "r", "i", "c", "e", ":", "1", "0", "0", ".", ".", "2", "0", "0">>,
      <<"c", "r", "e", "a", "t", "e", "d", ":", "2", "0", "2", "4">>,
      <<"a", " ", "O", "R", " ", "p", "r", "i", "c", "e", ":", "1", ".", ".", "2">>,
      <<"-", "p", "r", "i", "c", "e", ":", "1", "0", ".", ".", "2", "0">>,
      <<"-", " ", "-", "a">>,
      <<"-", "(", "-", "a", ")">>,
      <<"h", "e", "l", "l", "o", " ", "A", "N", "D", " ", "O", "R", " ", "w", "o", "r", "l", "d">>,
      <<"(", ")">>,
      <<"-", "(", ")", " ", "(", ")">> }

\* The queries of the repeated calls
CallInputs ==
    { <<"a">>,
      <<"-", "a">>,
      <<"a", "~", "b">>,
      <<"x", ":", "a">>,
      <<"-", " ", "x", ":", "a", " ", "b">>,
      <<"a", " ", "o", "r", " ", "b">>,
      <<"(", "a">>,
      <<"k", ":", "1", ".", ".", "2">>,
      <<" ", "a", " ", " ", "o", "r", "\t", "b", "\n">>,
      <<"x", ":", "\"", "a", " ", "b", "\"">>,
      <<"x", ":", "\"", "a", " ", "\t", "b", "\"">>,
      <<>> }

MaxCalls == 3

-----------------------------------------------------------------------------
(* The state machine: one call of parse on an instance, stage by stage *)

Init ==
    /\ \/ options \in Configs /\ input \in KeyInputs \cup DefaultKeyInputs \cup ScenarioInputs
       \/ options \in {NoOptions}
          /\ input \in LogicInputs \cup GroupInputs \cup CharInputs \cup RangeInputs
                        \cup NumericInputs \cup DateInputs
    /\ pc = "called"
    /\ query = <<>>
    /\ rawTokens = <<>>
    /\ tokens = <<>>
    /\ errors = <<>>
    /\ ast = Null
    /\ result = Null
    /\ calls = 1
    /\ memo = Null
    /\ adapter = Null
    /\ output = Null
    /\ cleanupI = 0
    /\ cursor = 0
    /\ stack = <<>>
    /\ ret = Null

\* query = this.normalizeQuery(query)
Normalize ==
    /\ pc = "called"
    /\ query' = normalizeQuery(input)
    /\ pc' = "normalized"
    /\ UNCHANGED <<options, input, rawTokens, tokens, errors, ast, result, calls, memo, adapter, output, stepVars>>

\* const { tokens, errors } = ...
Destructure(t) ==
    /\ rawTokens' = t.raw
    /\ tokens' = t.tokens
    /\ errors' = t.errors

\* const { tokens, errors } = this.tokenize(query)
DoTokenize ==
    /\ pc = "normalized"
    /\ Destructure(Tokenize(options, query))
    /\ pc' = "tokenized"
    /\ UNCHANGED <<options, input, query, ast, result, calls, memo, adapter, output, stepVars>>

\* const ast = this.buildAST(tokens)
DoBuildAST ==
    /\ pc = "tokenized"
    /\ ast' = buildAST(tokens)
    /\ pc' = "built"
    /\ UNCHANGED <<options, input, query, rawTokens, tokens, errors, result, calls, memo, adapter, output, stepVars>>

\* A result whose hasErrors is never set
ParseResultNoErrors(toks, tree, q, errs) ==
    [tokens |-> toks,
     ast |-> tree,
     astConditions |-> extractConditions(tree, FALSE),
     metadata |-> [originalQuery |-> q, hasErrors |-> FALSE, errors |-> errs]]

\* The ParseResult of _parse, parseTime left out
ParseResult(toks, tree, q, errs) ==
    [tokens |-> toks,
     ast |-> tree,
     astConditions |-> extractConditions(tree, FALSE),
     metadata |-> [originalQuery |-> q, hasErrors |-> Len(errs) > 0, errors |-> errs]]

\* const astConditions = this.extractConditions(ast); return { ... }
DoReturn ==
    /\ pc = "built"
    /\ result' = ParseResult(tokens, ast, query, errors)
    /\ pc' = "done"
    /\ UNCHANGED <<options, input, query, rawTokens, tokens, errors, ast, calls, memo, adapter, output, stepVars>>

Next == Normalize \/ DoTokenize \/ DoBuildAST \/ DoReturn

Spec == Init /\ [][Next]_vars

-----------------------------------------------------------------------------
(* Repeated calls on one instance.  A new call starts when the previous    *)
(* one has returned; whatever the previous call left behind stays where it *)
(* is until a stage of the new call writes it.  memo keeps the input and   *)
(* the result of one earlier call, any of them.                            *)

InitCalls ==
    /\ options \in Configs
    /\ input \in CallInputs
    /\ pc = "called"
    /\ query = <<>>
    /\ rawTokens = <<>>
    /\ tokens = <<>>
    /\ errors = <<>>
    /\ ast = Null
    /\ result = Null
    /\ calls = 1
    /\ memo = Null
    /\ adapter = Null
    /\ output = Null
    /\ cleanupI = 0
    /\ cursor = 0
    /\ stack = <<>>
    /\ ret = Null

\* parser.parse(q) on the same instance
Call(q) ==
    /\ pc = "done"
    /\ calls < MaxCalls
    /\ calls' = calls + 1
    /\ input' = q
    /\ pc' = "called"
    /\ memo' \in {memo, [call |-> calls, input |-> input, result |-> result]}
    /\ UNCHANGED <<options, query, rawTokens, tokens, errors, ast, result, adapter, output, stepVars>>

NextCalls == Next \/ \E q \in CallInputs : Call(q)

SpecCalls == InitCalls /\ [][NextCalls]_vars

-----------------------------------------------------------------------------
(* JSONSearchParser (json.ts).  An item of the data is a function from its *)
(* keys to values; a value is a string or a number, and a key the item     *)
(* does not have reads as undefined.                                       *)

StringValue(s) == [type |-> "string", str |-> s]
NumberValue(n) == [type |-> "number", num |-> n]
Undefined == [type |-> "undefined"]

\* item[ast.key]
Field(item, key) == IF key \in DOMAIN item THEN item[key] ELSE Undefined

RECURSIVE DigitsOf(_)
\* The decimal digits of a natural number
DigitsOf(n) ==
    IF n < 10 THEN <<DigitSeq[n + 1]>>
    ELSE DigitsOf(n \div 10) \o <<DigitSeq[(n % 10) + 1]>>

\* The digits of f thousandths, 0 < f < 1000, without trailing zeros
FractionDigits(f) ==
    LET ds == <<DigitSeq[(f \div 100) + 1], DigitSeq[((f \div 10) % 10) + 1], DigitSeq[(f % 10) + 1]>>
    IN  SubSeq(ds, 1, IF f % 100 = 0 THEN 1 ELSE IF f % 10 = 0 THEN 2 ELSE 3)

\* String(n) of a number held in thousandths
NumberToString(n) ==
    LET a == IF n < 0 THEN 0 - n ELSE n
    IN  (IF n < 0 THEN <<"-">> ELSE <<>>)
        \o DigitsOf(a \div NumberScale)
        \o (IF a % NumberScale = 0 THEN <<>> ELSE <<".">> \o FractionDigits(a % NumberScale))

\* if (typeof value !== "string") value = String(value ?? "")
StringOf(v) ==
    IF v.type = "string" THEN v.str
    ELSE IF v.type = "number" THEN NumberToString(v.num)
    ELSE <<>>

LowerChar(c) ==
    IF c \in Range(UpperSeq)
        THEN LowerSeq[CHOOSE i \in DOMAIN UpperSeq : UpperSeq[i] = c]
        ELSE c

\* String.prototype.toLowerCase
ToLowerCase(s) == [i \in DOMAIN s |-> LowerChar(s[i])]

\* String.prototype.includes
Includes(str, sub) ==
    \E i \in 0 .. (Len(str) - Len(sub)) : Slice(str, i, i + Len(sub)) = sub

\* new RegExp(pattern).test(str) for a pattern of letters, digits and
\* spaces, which matches where it occurs; the queries of the model hold no
\* other pattern
RegExpTest(pattern, str) ==
    /\ \A i \in DOMAIN pattern : pattern[i] \in WordChars \cup {" "}
    /\ Includes(str, pattern)

NaN == [nan |-> TRUE, n |-> 0]

\* Number(str): 0 for a blank string, the value of a decimal literal, NaN
\* for the other strings of the model's data
NumberOf(str) ==
    LET t == Trim(str)
    IN  IF t = <<>> THEN [nan |-> FALSE, n |-> 0]
        ELSE IF MatchNumber(t, 0) = Len(t) THEN [nan |-> FALSE, n |-> parseFloat(t)]
        ELSE NaN

\* Number(value) op Number(ast.value); a comparison with NaN is false
NumberCompare(op, a, b) ==
    /\ ~a.nan
    /\ CASE op = <<"=">> -> a.n = b
         [] op = <<">">> -> a.n > b
         [] op = <<"<">> -> a.n < b
         [] op = <<">", "=">> -> a.n >= b
         [] op = <<"<", "=">> -> a.n <= b
         [] OTHER -> FALSE

\* new Date(str) for the strings of the model's data: a year, month or
\* date-time literal, or a string that is no date at all
DateFromString(str) ==
    IF Len(str) \in {MatchYear(str, 0), MatchMonth(str, 0), MatchDateTime(str, 0)}
        THEN NewDate(str)
        ELSE InvalidDate

\* a.getTime() < b.getTime() for instants read in the same zone
DateLess(a, b) ==
    \/ a.y < b.y
    \/ a.y = b.y /\ a.mo < b.mo
    \/ a.y = b.y /\ a.mo = b.mo /\ a.d < b.d
    \/ a.y = b.y /\ a.mo = b.mo /\ a.d = b.d /\ a.ms < b.ms

DateSame(a, b) == a.y = b.y /\ a.mo = b.mo /\ a.d = b.d /\ a.ms = b.ms

\* new Date(value) op ast.value; a comparison with an invalid date is false
DateCompare(op, a, b) ==
    /\ ~IsInvalid(a)
    /\ CASE op = <<"=">> -> DateSame(a, b)
         [] op = <<">">> -> DateLess(b, a)
         [] op = <<"<">> -> DateLess(a, b)
         [] op = <<">", "=">> -> ~DateLess(a, b)
         [] op = <<"<", "=">> -> ~DateLess(b, a)
         [] OTHER -> FALSE

\* The condition case of matchesAST, value being the item's field as a string
conditionMatches(opts, node, value) ==
    IF /\ "key" \in DOMAIN node
       /\ opts.hasValidKeys /\ opts.validKeys # {}
       /\ node.key \notin opts.validKeys
        THEN FALSE
    ELSE LET match ==
                 IF node.token \in {"regex", "keyword_regex"}
                     THEN RegExpTest(node.value, value)
                 ELSE IF node.token = "keyword_numeric"
                     THEN NumberCompare(node.operator, NumberOf(value), node.value)
                 ELSE IF node.token = "keyword_date"
                     THEN DateCompare(node.operator, DateFromString(value), node.value)
                 ELSE Includes(ToLowerCase(value), ToLowerCase(node.value))
         IN  IF NodeNegated(node) THEN ~match ELSE match

\* const result = ast.operator === "AND" ? left && right : left || right
matchesBinary(operator, left, right) ==
    IF operator = <<"A", "N", "D">> THEN left /\ right ELSE left \/ right

RECURSIVE matchesAST(_, _, _)
matchesAST(opts, node, item) ==
    IF node.type = "binary"
        THEN LET res == matchesBinary(node.operator,
                                      matchesAST(opts, node.left, item),
                                      matchesAST(opts, node.right, item))
             IN  IF NodeNegated(node) THEN ~res ELSE res
    ELSE IF node.type = "condition"
        THEN conditionMatches(opts, node,
                 StringOf(IF "key" \in DOMAIN node THEN Field(item, node.key) ELSE Undefined))
    ELSE FALSE

\* if (!ast) return this.data; return this.data.filter(...)
filter(opts, data, tree) ==
    LET keep(item) == matchesAST(opts, tree, item)
    IN  IF tree = Null THEN data ELSE SelectSeq(data, keep)

KeyT == <<"t">>
KeyN == <<"n">>

\* The items the data sets are made of
ItemPool ==
    << (KeyT :> StringValue(<<"a">>)) @@ (KeyN :> NumberValue(5 * NumberScale))
           @@ (KeyD :> StringValue(<<"2", "0", "2", "4", "-", "0", "2", "-", "2", "9">>)),
       (KeyT :> StringValue(<<"b">>)) @@ (KeyN :> NumberValue(1 * NumberScale)),
       (KeyT :> StringValue(<<"a", "b">>)) @@ (KeyD :> StringValue(<<"2", "0", "2", "5">>)),
       (KeyT :> StringValue(<<"A", "B">>)) @@ (KeyN :> StringValue(<<"2", ".", "5">>)) >>

MaxItems == 2

\* new JSONSearchParser(data, options): the data sets are the selections of
\* at most MaxItems items of the pool, in its order
DataSets ==
    { [i \in DOMAIN ix |-> ItemPool[ix[i]]] :
        ix \in { x \in SeqsUpTo(DOMAIN ItemPool, MaxItems) :
                    \A i, j \in DOMAIN x : i < j => x[i] < x[j] } }

JSONConfigs ==
    { NoOptions,
      [hasValidKeys |-> TRUE, validKeys |-> {KeyT, KeyN, KeyD}, defaultKey |-> <<>>],
      [hasValidKeys |-> FALSE, validKeys |-> {}, defaultKey |-> KeyT] }

\* The terms of the filter queries
JSONTerms ==
    { <<"t", ":", "a">>, <<"t", ":", "b">>, <<"-", "t", ":", "b">>,
      <<"n", ">", "2">>, <<"t", ":", "/", "b", "/">>, <<"b">>,
      <<"d", "<", "2", "0", "2", "5">> }

\* What joins two terms: an operator in words or symbols, or a space
JSONJoins ==
    { <<" ", "A", "N", "D", " ">>, <<" ", "O", "R", " ">>, <<" ", "&", " ">>,
      <<" ", "|", " ">>, <<" ">> }

FilterInputs == JSONTerms \cup { a \o op \o b : a \in JSONTerms, op \in JSONJoins, b \in JSONTerms }

InitJSON ==
    /\ options \in JSONConfigs
    /\ input \in FilterInputs
    /\ adapter \in { [type |-> "json", data |-> data] : data \in DataSets }
    /\ pc = "called"
    /\ query = <<>>
    /\ rawTokens = <<>>
    /\ tokens = <<>>
    /\ errors = <<>>
    /\ ast = Null
    /\ result = Null
    /\ calls = 1
    /\ memo = Null
    /\ output = Null
    /\ cleanupI = 0
    /\ cursor = 0
    /\ stack = <<>>
    /\ ret = Null

\* filter(query): after super._parse(query) has returned
DoFilter ==
    /\ pc = "done"
    /\ adapter.type = "json"
    /\ output' = filter(options, adapter.data, result.ast)
    /\ pc' = "filtered"
    /\ UNCHANGED <<options, input, query, rawTokens, tokens, errors, ast, result, calls, memo, adapter, stepVars>>

NextJSON == Normalize \/ DoTokenize \/ DoBuildAST \/ DoReturn \/ DoFilter

SpecJSON == InitJSON /\ [][NextJSON]_vars

-----------------------------------------------------------------------------
(* DrizzleSearchParser (drizzle.ts).  filterFn and orderFn are the         *)
(* caller's: filterFn returns a fragment for the conditions whose key is   *)
(* in filterKeys, orderFn (when there is one) returns { key: dir } for the *)
(* sort keys in orderKeys; both return undefined otherwise.  A clause is   *)
(* undefined, a fragment of filterFn, or an object with one combinator key *)
(* and its operands.                                                       *)

KeyAsc == <<"a", "s", "c">>
KeyDesc == <<"d", "e", "s", "c">>
KeyNot == <<"N", "O", "T">>

\* if (options.validKeys) { ...[...options.validKeys, "asc"], "desc" }
DrizzleOptions(opts) ==
    IF opts.hasValidKeys
        THEN [opts EXCEPT !.validKeys = @ \cup {KeyAsc, KeyDesc}]
        ELSE opts

\* The fragment filterFn returns for a condition it accepts: an object of
\* the caller's, without combinator keys
Fragment(cond) == [type |-> "fragment", cond |-> cond]

\* { [key]: [...args] }, and { NOT: clause } with the one operand
Combinator(key, args) == [type |-> "object", key |-> key, args |-> args]

\* this.options.filterFn(cond)
filterFn(fn, cond) ==
    IF "key" \in DOMAIN cond /\ cond.key \in fn.filterKeys THEN Fragment(cond) ELSE Undefined

\* const cond: ASTCondition = { key: node.key, value: node.value, ... }
DrizzleCondition(node, isNegated) ==
    LET base == [value |-> node.value,
                 isRegex |-> node.token \in {"regex", "keyword_regex"},
                 isNegated |-> isNegated,
                 isNumeric |-> node.token = "keyword_numeric",
                 isDate |-> node.token = "keyword_date",
                 position |-> node.position]
        k == IF "key" \in DOMAIN node THEN [key |-> node.key] ELSE [x \in {} |-> 0]
        o == IF "operator" \in DOMAIN node THEN [operator |-> node.operator] ELSE [x \in {} |-> 0]
    IN  base @@ k @@ o

IsSortCondition(cond) == "key" \in DOMAIN cond /\ cond.key \in {KeyAsc, KeyDesc}

\* What a call of buildWhereClause leaves: the clause it returns and the
\* arrays filtered and excluded it has pushed to
BuiltClause(clause, filtered, excluded) ==
    [clause |-> clause, filtered |-> filtered, excluded |-> excluded]

\* case "condition"
conditionClause(fn, cond, acc) ==
    IF IsSortCondition(cond)
        THEN BuiltClause(Undefined, acc.filtered, Append(acc.excluded, cond))
    ELSE IF filterFn(fn, cond) # Undefined
        THEN BuiltClause(filterFn(fn, cond), Append(acc.filtered, cond), acc.excluded)
    ELSE BuiltClause(Undefined, acc.filtered, Append(acc.excluded, cond))

\* const left = leftClause[node.operator];
\* Array.isArray(left) ? left : [leftClause]
OperandsOf(operator, clause) ==
    IF clause.type = "object" /\ clause.key = operator THEN clause.args ELSE <<clause>>

\* The binary case once both sides are built
joinClauses(operator, leftClause, rightClause) ==
    IF leftClause = Undefined \/ rightClause = Undefined
        THEN (IF leftClause # Undefined THEN leftClause ELSE rightClause)
        ELSE Combinator(operator, OperandsOf(operator, leftClause) \o OperandsOf(operator, rightClause))

\* if (clause && ast.negated && !(clause.NOT && Object.keys(clause).length === 1))
\*     return { NOT: clause }
wrapNegated(clause, negated) ==
    IF clause # Undefined /\ negated /\ ~(clause.type = "object" /\ clause.key = KeyNot)
        THEN Combinator(KeyNot, <<clause>>)
        ELSE clause

\* The clause of a built node, wrapped when the node is negated
finishClause(built, negated) == [built EXCEPT !.clause = wrapNegated(@, negated)]

\* The right side of a binary node is built after the left one, into the
\* same arrays
joinBuilt(operator, leftClause, right) ==
    [right EXCEPT !.clause = joinClauses(operator, leftClause, @)]

RECURSIVE buildWhereClause(_, _, _, _)
\* case "binary"
binaryClause(fn, node, isNegated, left) ==
    joinBuilt(node.operator, left.clause, buildWhereClause(fn, node.right, isNegated, left))

buildClause(fn, node, isNegated, acc) ==
    IF node.type = "binary"
        THEN binaryClause(fn, node, isNegated, buildWhereClause(fn, node.left, isNegated, acc))
        ELSE conditionClause(fn, DrizzleCondition(node, isNegated), acc)

buildWhereClause(fn, node, parentNegated, acc) ==
    IF node = Null THEN BuiltClause(Undefined, acc.filtered, acc.excluded)
    ELSE finishClause(buildClause(fn, node, parentNegated \/ NodeNegated(node), acc),
                      NodeNegated(node))

\* orderBy[cond.value]
OrderAt(orderBy, key) ==
    IF \E i \in DOMAIN orderBy : orderBy[i].key = key
        THEN orderBy[CHOOSE i \in DOMAIN orderBy : orderBy[i].key = key].dir
        ELSE <<>>

\* { ...orderBy, ...order } for order = { [key]: dir }
OrderMerge(orderBy, key, dir) ==
    IF \E i \in DOMAIN orderBy : orderBy[i].key = key
        THEN [i \in DOMAIN orderBy |->
                 IF orderBy[i].key = key THEN [key |-> key, dir |-> dir] ELSE orderBy[i]]
        ELSE Append(orderBy, [key |-> key, dir |-> dir])

\* typeof cond.value === "string"
IsStringValue(cond) == ~cond.isNumeric /\ ~cond.isDate

\* excluded.filter((c) => c.key !== cond.key && c.value !== cond.value)
WithoutSorted(excluded, cond) ==
    LET keep(c) ==
            /\ ~("key" \in DOMAIN c /\ c.key = cond.key)
            /\ ~(IsStringValue(c) /\ c.value = cond.value)
    IN  SelectSeq(excluded, keep)

\* The body of the loop for one condition of excluded
orderStep(fn, cond, st) ==
    IF IsSortCondition(cond) /\ IsStringValue(cond) /\ OrderAt(st.orderBy, cond.value) # cond.key
        THEN IF cond.value \in fn.orderKeys
                 THEN [orderBy |-> OrderMerge(st.orderBy, cond.value, cond.key),
                       sorted |-> Append(st.sorted, [dir |-> cond.key, key |-> cond.value]),
                       excluded |-> WithoutSorted(st.excluded, cond)]
                 ELSE st
        ELSE st

RECURSIVE orderLoop(_, _, _, _)
\* for (const cond of excluded): the array the loop walks is the one
\* buildWhereClause filled, whatever `excluded` is reassigned to
orderLoop(fn, conds, i, st) ==
    IF i > Len(conds) THEN st ELSE orderLoop(fn, conds, i + 1, orderStep(fn, conds[i], st))

\* const orderBy = (() => { ... })()
orderOf(fn, excluded) ==
    LET isSort(c) == IsSortCondition(c)
    IN  IF ~fn.hasOrderFn \/ SelectSeq(excluded, isSort) = <<>>
            THEN [orderBy |-> Undefined, sorted |-> <<>>, excluded |-> excluded]
            ELSE orderLoop(fn, excluded, 1, [orderBy |-> <<>>, sorted |-> <<>>, excluded |-> excluded])

\* return { tokens, ast, metadata, where, orderBy, conditions }
DrizzleParseResult(res, built, order) ==
    [tokens |-> res.tokens,
     ast |-> res.ast,
     metadata |-> res.metadata,
     where |-> built.clause,
     orderBy |-> order.orderBy,
     conditions |-> [filtered |-> built.filtered,
                     sorted |-> order.sorted,
                     excluded |-> order.excluded]]

\* The part of parse after super._parse(query), from the clause that was built
parseOrder(fn, res, built) == DrizzleParseResult(res, built, orderOf(fn, built.excluded))

parse(fn, res) ==
    parseOrder(fn, res, buildWhereClause(fn, res.ast, FALSE, BuiltClause(Undefined, <<>>, <<>>)))

KeyY == <<"y">>

\* new DrizzleSearchParser({ filterFn, orderFn }): what the two accept
Adapters ==
    { [type |-> "drizzle", filterKeys |-> f, hasOrderFn |-> o.has, orderKeys |-> o.keys] :
        f \in {{KeyX}, {KeyX, KeyY}},
        o \in { [has |-> FALSE, keys |-> {}],
                [has |-> TRUE, keys |-> {KeyX}],
                [has |-> TRUE, keys |-> {KeyX, KeyY}] } }

DrizzleConfigs ==
    { DrizzleOptions(NoOptions),
      DrizzleOptions([hasValidKeys |-> TRUE, validKeys |-> {KeyX, KeyY}, defaultKey |-> <<>>]) }

MaxDrizzleTerms == 3

\* Filter terms, sort terms, a negation, operators in words and symbols, parentheses
DrizzleLexicon ==
    { <<"x", ":", "a">>, <<"y", ":", "x">>, <<"a", "s", "c", ":", "x">>,
      <<"a", "s", "c", ":", "y">>, <<"-">>, <<"&">>, <<"|">>, <<"A", "N", "D">>,
      <<"(">>, <<")">> }

DrizzleInputs == {Join(ls, <<" ">>) : ls \in SeqsUpTo(DrizzleLexicon, MaxDrizzleTerms)}

InitDrizzle ==
    /\ options \in DrizzleConfigs
    /\ input \in DrizzleInputs
    /\ adapter \in Adapters
    /\ pc = "called"
    /\ query = <<>>
    /\ rawTokens = <<>>
    /\ tokens = <<>>
    /\ errors = <<>>
    /\ ast = Null
    /\ result = Null
    /\ calls = 1
    /\ memo = Null
    /\ output = Null
    /\ cleanupI = 0
    /\ cursor = 0
    /\ stack = <<>>
    /\ ret = Null

\* parse(query): after super._parse(query) has returned
DoParse ==
    /\ pc = "done"
    /\ adapter.type = "drizzle"
    /\ output' = parse(adapter, result)
    /\ pc' = "parsed"
    /\ UNCHANGED <<options, input, query, rawTokens, tokens, errors, ast, result, calls, memo, adapter, stepVars>>

NextDrizzle == Normalize \/ DoTokenize \/ DoBuildAST \/ DoReturn \/ DoParse

SpecDrizzle == InitDrizzle /\ [][NextDrizzle]_vars

-----------------------------------------------------------------------------
(* The clean-up pass and buildAST step by step.  One step of the clean-up  *)
(* is one iteration of its loop.  One step of the builder is a call of     *)
(* parseExpression or parseTerm up to the call it makes or to its return,  *)
(* or the resumption of the caller after a return; stack holds the calls   *)
(* in progress, the innermost last, with their locals.                     *)

MaxTokens == 4

TokenKinds == {"word", "operator", "negation", "open_paren", "negated_paren", "close_paren"}

\* The token of a kind at a position
TokenOf(kind, position) ==
    IF kind = "word" THEN [type |-> "word", value |-> <<"a">>, position |-> position]
    ELSE IF kind = "operator" THEN [type |-> "operator", value |-> <<"O", "R">>, position |-> position]
    ELSE IF kind = "negated_paren" THEN [type |-> "open_paren", negated |-> TRUE, position |-> position]
    ELSE [type |-> kind, position |-> position]

\* The token lists of at most MaxTokens tokens
TokenLists ==
    { [k \in DOMAIN ks |-> TokenOf(ks[k], k - 1)] : ks \in SeqsUpTo(TokenKinds, MaxTokens) }

InitSteps ==
    /\ options = NoOptions
    /\ input = <<>>
    /\ query = <<>>
    /\ rawTokens \in TokenLists
    /\ tokens = rawTokens
    /\ errors = <<>>
    /\ pc = "cleanup"
    /\ cleanupI = 0
    /\ cursor = 0
    /\ stack = <<>>
    /\ ret = Null
    /\ ast = Null
    /\ result = Null
    /\ calls = 1
    /\ memo = Null
    /\ adapter = Null
    /\ output = Null

\* The tokens and the index after an iteration
CleanupTo(s) ==
    /\ tokens' = s.tokens
    /\ cleanupI' = s.i

\* for (let i = 0; i < tokens.length; i++) { ... }: one iteration
CleanupIteration ==
    /\ pc = "cleanup"
    /\ cleanupI < Len(tokens)
    /\ CleanupTo(CleanupStep(tokens, cleanupI))
    /\ UNCHANGED <<options, input, pc, query, rawTokens, errors, ast, result, calls, memo,
                   adapter, output, cursor, stack, ret>>

\* The loop ends; buildAST starts: let index = 0, return parseExpression()
CleanupExit ==
    /\ pc = "cleanup"
    /\ cleanupI >= Len(tokens)
    /\ pc' = "parseExpression"
    /\ cursor' = 0
    /\ stack' = <<>>
    /\ UNCHANGED <<options, input, query, rawTokens, tokens, errors, ast, result, calls, memo,
                   adapter, output, cleanupI, ret>>

Push(frame) == stack' = Append(stack, frame)
Pop == stack' = SubSeq(stack, 1, Len(stack) - 1)
ReplaceTop(frame) == stack' = [stack EXCEPT ![Len(stack)] = frame]

\* parseExpression(): let left = parseTerm()
CallExpression ==
    /\ pc = "parseExpression"
    /\ Push([fn |-> "parseExpression", at |-> "left"])
    /\ pc' = "parseTerm"
    /\ UNCHANGED <<options, input, query, rawTokens, tokens, errors, ast, result, calls, memo,
                   adapter, output, cleanupI, cursor, ret>>

\* parseTerm(): const token = tokens[index++]; switch (token.type)
CallTerm ==
    /\ pc = "parseTerm"
    /\ cursor' = cursor + 1
    /\ IF cursor >= Len(tokens)
           THEN pc' = "return" /\ ret' = Null /\ UNCHANGED stack
       ELSE IF tokens[cursor + 1].type = "negation"
           THEN pc' = "parseTerm" /\ Push([fn |-> "parseTerm", at |-> "negation"]) /\ UNCHANGED ret
       ELSE IF tokens[cursor + 1].type = "open_paren"
           THEN /\ pc' = "parseExpression"
                /\ Push([fn |-> "parseTerm", at |-> "group", negated |-> TokenNegated(tokens[cursor + 1])])
                /\ UNCHANGED ret
       ELSE IF tokens[cursor + 1].type \in ConditionTokens
           THEN pc' = "return" /\ ret' = ConditionNode(tokens[cursor + 1]) /\ UNCHANGED stack
       ELSE pc' = "return" /\ ret' = Null /\ UNCHANGED stack
    /\ UNCHANGED <<options, input, query, rawTokens, tokens, errors, ast, result, calls, memo,
                   adapter, output, cleanupI>>

\* The while loop of parseExpression with left in hand: it breaks and
\* returns left, or reads an operator and calls parseTerm for the right side
ExpressionLoop(left) ==
    IF cursor >= Len(tokens) \/ tokens[cursor + 1].type = "close_paren"
        THEN pc' = "return" /\ ret' = left /\ Pop /\ UNCHANGED cursor
    ELSE IF tokens[cursor + 1].type = "operator"
        THEN /\ pc' = "parseTerm"
             /\ cursor' = cursor + 1
             /\ ReplaceTop([fn |-> "parseExpression", at |-> "right", left |-> left,
                            operator |-> tokens[cursor + 1].value])
             /\ UNCHANGED ret
    ELSE IF isStartOfTerm(tokens, cursor)
        THEN /\ pc' = "parseTerm"
             /\ ReplaceTop([fn |-> "parseExpression", at |-> "right", left |-> left,
                            operator |-> ImplicitOperator])
             /\ UNCHANGED <<cursor, ret>>
    ELSE pc' = "return" /\ ret' = left /\ Pop /\ UNCHANGED cursor

\* parseTerm has returned to parseExpression: if (!left) return null;
\* if (!right) break; left = { type: "binary", operator, left, right }
ReturnToExpression ==
    /\ pc = "return"
    /\ stack # <<>>
    /\ stack[Len(stack)].fn = "parseExpression"
    /\ IF stack[Len(stack)].at = "left"
           THEN IF ret = Null
                    THEN pc' = "return" /\ Pop /\ UNCHANGED <<cursor, ret>>
                    ELSE ExpressionLoop(ret)
           ELSE IF ret = Null
                    THEN pc' = "return" /\ ret' = stack[Len(stack)].left /\ Pop /\ UNCHANGED cursor
                    ELSE ExpressionLoop(BinaryNode(stack[Len(stack)].operator,
                                                   stack[Len(stack)].left, ret))
    /\ UNCHANGED <<options, input, query, rawTokens, tokens, errors, ast, result, calls, memo,
                   adapter, output, cleanupI>>

\* The nested call has returned to parseTerm: negatedTerm.negated = true,
\* or index++ for the close_paren and expr.negated = true
ReturnToTerm ==
    /\ pc = "return"
    /\ stack # <<>>
    /\ stack[Len(stack)].fn = "parseTerm"
    /\ IF stack[Len(stack)].at = "negation"
           THEN /\ ret' = IF ret # Null THEN SetNegated(ret) ELSE ret
                /\ UNCHANGED cursor
           ELSE /\ ret' = IF ret # Null /\ stack[Len(stack)].negated THEN SetNegated(ret) ELSE ret
                /\ cursor' = cursor + 1
    /\ Pop
    /\ pc' = "return"
    /\ UNCHANGED <<options, input, query, rawTokens, tokens, errors, ast, result, calls, memo,
                   adapter, output, cleanupI>>

\* The outermost parseExpression has returned: buildAST returns its node
ReturnAST ==
    /\ pc = "return"
    /\ stack = <<>>
    /\ ast' = ret
    /\ pc' = "finished"
    /\ UNCHANGED <<options, input, query, rawTokens, tokens, errors, result, calls, memo,
                   adapter, output, cleanupI, cursor, stack, ret>>

NextSteps ==
    \/ CleanupIteration \/ CleanupExit
    \/ CallExpression \/ CallTerm
    \/ ReturnToExpression \/ ReturnToTerm \/ ReturnAST

\* Both run in one thread that is not interrupted: a step that can be
\* taken is taken
SpecSteps == InitSteps /\ [][NextSteps]_vars /\ WF_vars(NextSteps)


-----------------------------------------------------------------------------
(* Properties.  What they share: *)

AND == <<"A", "N", "D">>
OR == <<"O", "R">>

Returned == pc = "done"

Built == pc \in {"built", "done"}

Tokenized == pc \in {"tokenized", "built", "done"}

\* tokenize has just returned; the lists it returned stay as they are
\* until the call ends
JustTokenized == pc = "tokenized"

RECURSIVE Leaves(_)
\* The condition nodes of a tree, from left to right
Leaves(node) ==
    IF node = Null THEN <<>>
    ELSE IF node.type = "binary" THEN Leaves(node.left) \o Leaves(node.right)
    ELSE <<node>>

RECURSIVE Ops(_)
\* The operators of a tree, from left to right: Ops(t)[k] is the operator of
\* the node that joins the k-th leaf and the one after it
Ops(node) ==
    IF node = Null \/ node.type # "binary" THEN <<>>
    ELSE Ops(node.left) \o <<node.operator>> \o Ops(node.right)

RECURSIVE CondIdxFrom(_, _)
CondIdxFrom(toks, i) ==
    IF i > Len(toks) THEN <<>>
    ELSE IF toks[i].type \in ConditionTokens THEN <<i>> \o CondIdxFrom(toks, i + 1)
    ELSE CondIdxFrom(toks, i + 1)

\* The indices of the condition-bearing tokens of a token list
CondIdx(toks) == CondIdxFrom(toks, 1)

\* An operator token lies strictly between the indices a and b
OpBetween(toks, a, b) == \E j \in (a + 1) .. (b - 1) : toks[j].type = "operator"

\* A token list of terms and operators without parentheses:
\* term (operator? term)*, a term being a leaf after any number of negations
FlatTerms(toks) ==
    /\ toks # <<>>
    /\ \A i \in DOMAIN toks : toks[i].type \in ConditionTokens \cup {"operator", "negation"}
    /\ toks[1].type # "operator"
    /\ toks[Len(toks)].type \in ConditionTokens
    /\ \A i \in 1 .. (Len(toks) - 1) :
          toks[i].type \in {"operator", "negation"}
              => toks[i + 1].type \in ConditionTokens \cup {"negation"}

RECURSIVE LeftAssoc(_)
\* (((t1 op1 t2) op2 t3) ...) for a flat token list: the last term is the
\* right operand of the root, everything before its operator the left one
LeftAssoc(toks) ==
    LET n == Len(toks)
        first == CHOOSE i \in 1 .. n :
                    /\ \A j \in i .. (n - 1) : toks[j].type = "negation"
                    /\ (i = 1 \/ toks[i - 1].type # "negation")
        leaf == IF first < n THEN SetNegated(ConditionNode(toks[n])) ELSE ConditionNode(toks[n])
    IN  IF first = 1 THEN leaf
        ELSE IF toks[first - 1].type = "operator"
            THEN BinaryNode(toks[first - 1].value, LeftAssoc(SubSeq(toks, 1, first - 2)), leaf)
        ELSE BinaryNode(AND, LeftAssoc(SubSeq(toks, 1, first - 1)), leaf)

Word(v, p) == [type |-> "condition", token |-> "word", value |-> v, position |-> p]

QAOrBAndC == <<"a", " ", "O", "R", " ", "b", " ", "A", "N", "D", " ", "c">>
QFooAndBarOrBaz == <<"f", "o", "o", " ", "A", "N", "D", " ", "b", "a", "r", " ", "O", "R", " ", "b", "a", "z">>
QHelloWorld == <<"h", "e", "l", "l", "o", " ", "w", "o", "r", "l", "d">>
QFooGroup == <<"f", "o", "o", " ", "(", "b", "a", "r", " ", "o", "r", " ", "b", "a", "z", ")">>

\* C1: terms written without parentheses are combined left-associatively at
\* one precedence level, whatever mix of AND and OR: the tree of
\* t1 op1 t2 op2 ... tn is (((t1 op1 t2) op2 t3) ...); `a OR b AND c` gives
\* AND(OR(a,b),c) and `foo AND bar OR baz` gives OR(AND(foo,bar),baz).
C1_LeftAssociative ==
    /\ (Built /\ FlatTerms(tokens)) => ast = LeftAssoc(tokens)
    /\ (Built /\ options = NoOptions /\ input = QAOrBAndC) =>
          ast = BinaryNode(AND, BinaryNode(OR, Word(<<"a">>, 0), Word(<<"b">>, 5)),
                           Word(<<"c">>, 11))
    /\ (Built /\ options = NoOptions /\ input = QFooAndBarOrBaz) =>
          ast = BinaryNode(OR, BinaryNode(AND, Word(<<"f", "o", "o">>, 0),
                                          Word(<<"b", "a", "r">>, 8)),
                           Word(<<"b", "a", "z">>, 15))

\* C1 witness: `a OR b AND c` has been built, with AND at the root over OR
C1_Witness ==
    /\ Built /\ input = QAOrBAndC /\ FlatTerms(tokens)
    /\ ast.type = "binary" /\ ast.operator = AND
    /\ ast.left.type = "binary" /\ ast.left.operator = OR

RECURSIVE MatchesFrom(_, _)
MatchesFrom(q, from) ==
    LET m == Exec(q, from)
    IN  IF m.index = NoMatch THEN <<>> ELSE <<m>> \o MatchesFrom(q, m.end)

\* The successive matches of the scan pattern in a query: its terms
Matches(q) == MatchesFrom(q, 0)

RECURSIVE Nodes(_)
\* A tree's nodes
Nodes(node) ==
    IF node = Null THEN {}
    ELSE IF node.type = "binary" THEN {node} \cup Nodes(node.left) \cup Nodes(node.right)
    ELSE {node}

\* open_paren tokens minus close_paren tokens among toks[a..b]
Depth(toks, a, b) ==
    Cardinality({j \in a .. b : toks[j].type = "open_paren"})
        - Cardinality({j \in a .. b : toks[j].type = "close_paren"})

HasClose(toks, i) == \E j \in (i + 1) .. Len(toks) : Depth(toks, i, j) = 0

\* The index of the close_paren that matches the open_paren at index i
CloseOf(toks, i) ==
    CHOOSE j \in (i + 1) .. Len(toks) :
        Depth(toks, i, j) = 0 /\ \A h \in (i + 1) .. (j - 1) : Depth(toks, i, h) # 0

\* The open_paren at index i opens a negated group: `-(`, or `(` right
\* after a negation marker as in `!(`
NegatedGroupAt(toks, i) ==
    /\ toks[i].type = "open_paren"
    /\ TokenNegated(toks[i]) \/ TypeAt(toks, i - 1) = "negation"

QNegatedGroup == <<"-", "(", "a", " ", "-", " ", "o", "r", " ", "b", " ", "c", ")">>

\* C2: every leaf condition whose token lies between the open_paren of a
\* negated group and the matching close_paren has isNegated = TRUE in
\* astConditions, prefixed by a negation marker or not.
C2_NegationPropagates ==
    Returned =>
        \A i \in DOMAIN tokens :
            (NegatedGroupAt(tokens, i) /\ HasClose(tokens, i)) =>
                \A k \in (i + 1) .. (CloseOf(tokens, i) - 1) :
                    tokens[k].type \in ConditionTokens =>
                        \A n \in DOMAIN result.astConditions :
                            result.astConditions[n].position = tokens[k].position
                                => result.astConditions[n].isNegated

\* C2 on the query -(a - or b c) alone
C2_NegatedGroupExample ==
    (Returned /\ input = QNegatedGroup) =>
        \A n \in DOMAIN result.astConditions : result.astConditions[n].isNegated

\* The matches of a query that are ranges `key:A..B` with an accepted key
\* and bounds that exist
IsRangeTerm(opts, m) ==
    /\ m.groups.keywordRange # <<>>
    /\ ~KeyRejected(opts, m.groups.keywordRange)
    /\ m.groups.numeric1 = <<>> =>
          /\ ~IsInvalid(NewDate(FirstTruthy(<<m.groups.date1, m.groups.month1, m.groups.year1>>)))
          /\ ~IsInvalid(NewDate(FirstTruthy(<<m.groups.date2, m.groups.month2, m.groups.year2>>)))

ConditionsAt(conds, position) ==
    LET here(c) == c.position = position IN SelectSeq(conds, here)

GE == <<">", "=">>
LE == <<"<", "=">>

\* C3: a range term key:A..B with an accepted key, alone or inside a larger
\* query, yields exactly two conditions in astConditions, >= A then <= B,
\* and in the tree the two are the operands of one AND node.
C3_RangeExpansion ==
    Returned =>
        \A i \in DOMAIN Matches(query) :
            LET m == Matches(query)[i]
                cs == ConditionsAt(result.astConditions, m.index)
            IN  IsRangeTerm(options, m) =>
                    /\ Len(cs) = 2
                    /\ cs[1].operator = GE /\ cs[2].operator = LE
                    /\ m.groups.numeric1 # <<>> =>
                          /\ cs[1].value = parseFloat(m.groups.numeric1)
                          /\ cs[2].value = parseFloat(m.groups.numeric2)
                    /\ \E n \in Nodes(ast) :
                          /\ n.type = "binary" /\ n.operator = AND
                          /\ n.left.type = "condition" /\ n.left.position = m.index
                          /\ n.left.operator = GE
                          /\ n.right.type = "condition" /\ n.right.position = m.index
                          /\ n.right.operator = LE

\* C6: ast is null only when the cleaned token list has no condition-bearing
\* token; with at least one such token, ast is not null.
C6_NullOnlyWithoutConditions ==
    Returned => (result.ast = Null <=> CondIdx(result.tokens) = <<>>)

\* A token that the tokenizer made up for a date period: an open_paren or
\* close_paren at the position of the keyword_date beside it
Synthetic(toks, i) ==
    \/ /\ toks[i].type = "open_paren" /\ TypeAt(toks, i + 1) = "keyword_date"
       /\ toks[i + 1].position = toks[i].position
    \/ /\ toks[i].type = "close_paren" /\ TypeAt(toks, i - 1) = "keyword_date"
       /\ toks[i - 1].position = toks[i].position

QTolkien == <<"a", "u", "t", "h", "o", "r", ":", "T", "o", "l", "k", "i", "e", "n", " ", "-", "t", "i", "t", "l", "e", ":", "\"", "T", "h", "e", " ", "H", "o", "b", "b", "i", "t", "\"">>

\* C10: a token's position is the offset in the normalized query of the
\* first character of its own lexeme: the `-` or `!` of a negation, the `(`
\* of an open_paren or its leading `-`, never the space before it; the
\* tokens of author:Tolkien -title:"The Hobbit" are at 0, 15 and 16.
C10_TokenPositions ==
    Returned =>
        /\ \A i \in DOMAIN tokens :
              LET c == At(query, tokens[i].position)
                  d == At(query, tokens[i].position + 1)
              IN  /\ c # " "
                  /\ tokens[i].type = "negation" => c \in {"-", "!"}
                  /\ (tokens[i].type = "open_paren" /\ ~Synthetic(tokens, i))
                        => (c = "(" \/ (c = "-" /\ d = "("))
                  /\ (tokens[i].type = "close_paren" /\ ~Synthetic(tokens, i)) => c = ")"
        /\ input = QTolkien => [i \in DOMAIN tokens |-> tokens[i].position] = <<0, 15, 16>>

\* C10 on the documented example alone
C10_TolkienExample ==
    (Returned /\ input = QTolkien) =>
        [i \in DOMAIN tokens |-> tokens[i].position] = <<0, 15, 16>>

\* A term without key that is not a logical operator
IsKeylessTerm(m) ==
    /\ m.groups.keyword = <<>>
    /\ FirstTruthy(<<m.groups.value, m.groups.quote, m.groups.regex>>) # <<>>
    /\ ~(m.groups.value # <<>> /\ isLogicalOperator(m.groups.value))

ErrorsAt(errs, position) ==
    LET here(e) == e.position = position IN SelectSeq(errs, here)

\* C5: with validKeys and defaultKey both configured, a keyless term is
\* checked under the key defaultKey: when defaultKey is not in validKeys
\* the term is dropped with an invalid_key error; so every keyed token of
\* the result has its key in validKeys.
C5_DefaultKeyChecked ==
    (Returned /\ options.hasValidKeys /\ options.defaultKey # <<>>) =>
        /\ \A i \in DOMAIN result.tokens :
              "key" \in DOMAIN result.tokens[i] => result.tokens[i].key \in options.validKeys
        /\ options.defaultKey \notin options.validKeys =>
              \A i \in DOMAIN Matches(query) :
                  LET m == Matches(query)[i]
                  IN  IsKeylessTerm(m) =>
                          /\ \A j \in DOMAIN result.tokens :
                                result.tokens[j].position # m.index
                          /\ \E j \in DOMAIN errors :
                                /\ errors[j].type = "invalid_key"
                                /\ errors[j].position = m.index

RECURSIVE StateBefore(_, _, _, _, _)
\* The tokens and errors of the scan when it reaches the match at offset
\* stop: what has been emitted before that term
StateBefore(opts, q, st, lastIndex, stop) ==
    LET m == Exec(q, lastIndex)
    IN  IF m.index = NoMatch \/ m.index >= stop THEN st
        ELSE StateBefore(opts, q, ScanMatch(opts, st, m), m.end, stop)

\* The elements of a sequence
Elements(s) == {s[i] : i \in DOMAIN s}

\* The key a term spells out, if any
ExplicitKey(m) == FirstTruthy(<<m.groups.keywordRange, m.groups.keywordNumeric, m.groups.keyword>>)

QNegatedInvalid == <<"-", "i", "n", "v", "a", "l", "i", "d", ":", "v", "a", "l", "u", "e">>
QInvalid == <<"i", "n", "v", "a", "l", "i", "d", ":", "v", "a", "l", "u", "e">>

\* C4: with validKeys configured, a term whose explicit key is not in
\* validKeys leaves no token and exactly one invalid_key error with that key
\* at the term's position; when the last token emitted before the term is a
\* negation, that token is removed too, so -invalid:value leaves no token.
C4_AllowList ==
    (Tokenized /\ options.hasValidKeys) =>
        /\ \A m \in Elements(Matches(query)) :
              LET key == ExplicitKey(m)
                  before == StateBefore(options, query, FreshScanState, 0, m.index).tokens
                  errs == ErrorsAt(errors, m.index)
              IN  (key # <<>> /\ key \notin options.validKeys) =>
                      /\ \A j \in DOMAIN rawTokens : rawTokens[j].position # m.index
                      /\ \A j \in DOMAIN tokens : tokens[j].position # m.index
                      /\ Len(errs) = 1
                      /\ errs[1].type = "invalid_key" /\ errs[1].key = key
                      /\ LastIsNegation(before) =>
                            \A j \in DOMAIN rawTokens :
                                rawTokens[j].position # before[Len(before)].position
        /\ input = QNegatedInvalid => (tokens = <<>> /\ Len(errors) = 1)

\* C4 witness: -invalid:value has been tokenized under validKeys without
\* that key; the negation and the term are gone and one error is recorded
C4_Witness ==
    /\ Returned /\ options.hasValidKeys /\ input = QNegatedInvalid
    /\ result.tokens = <<>>
    /\ Len(errors) = 1 /\ errors[1].type = "invalid_key"
    /\ errors[1].key = <<"i", "n", "v", "a", "l", "i", "d">> /\ errors[1].position = 1

QHelloTildeWorld == <<"h", "e", "l", "l", "o", "~", "w", "o", "r", "l", "d">>

-----------------------------------------------------------------------------
\* The tokens the scan has emitted when it has read the query up to stop
TokensUpTo(stop) == StateBefore(options, query, FreshScanState, 0, stop).tokens

\* The tokens the scan emits from the offset from on, starting with toks
TokensFrom(toks, from) ==
    StateBefore(options, query, [tokens |-> toks, errors |-> <<>>], from, Len(query) + 1).tokens

QWordRunWord == <<"a", "~", " ", "a">>

\* C11: a run of non-whitespace characters that no token pattern matches
\* adds exactly one syntax error, with the message "Unexpected syntax", the
\* offset of the run as position and the text of the run as value; it emits
\* no token and the scan goes on behind it, so the terms before and after
\* it are tokenized as they are without it.  Without a default key,
\* hello~world yields the word hello and one error at position 5 with
\* value ~world.
C11_UnreadableRunSkipped ==
    JustTokenized =>
        /\ \A m \in Elements(Matches(query)) :
              m.groups.other # <<>> =>
                  /\ m.groups.other = Slice(query, m.index, m.end)
                  /\ \A i \in m.index .. (m.end - 1) : At(query, i) \notin Whitespace
                  /\ At(query, m.end) \in Whitespace \cup {""}
                  /\ ErrorsAt(errors, m.index) =
                        << [type |-> "syntax", message |-> "Unexpected syntax",
                            position |-> m.index, value |-> m.groups.other] >>
                  /\ \A j \in DOMAIN rawTokens : rawTokens[j].position # m.index
                  /\ TokensUpTo(m.end) = TokensUpTo(m.index)
                  /\ rawTokens = TokensFrom(TokensUpTo(m.index), m.end)
        /\ \A m \in Elements(Matches(query)) :
              (IsKeylessTerm(m) /\ m.groups.value # <<>>) =>
                  \E j \in DOMAIN rawTokens :
                      /\ rawTokens[j].position = m.index
                      /\ rawTokens[j].value \in {m.groups.value, ToUpperCase(m.groups.value)}
        /\ (input = QHelloTildeWorld /\ options.defaultKey = <<>>) =>
              /\ tokens = <<[type |-> "word", value |-> <<"h", "e", "l", "l", "o">>, position |-> 0]>>
              /\ errors = << [type |-> "syntax", message |-> "Unexpected syntax", position |-> 5,
                              value |-> <<"~", "w", "o", "r", "l", "d">>] >>

\* C11 witness: in a~ a the run ~ lies between two words; both words are
\* tokens and the run is the one error
C11_Witness ==
    /\ Tokenized /\ options = NoOptions /\ query = QWordRunWord
    /\ rawTokens = << [type |-> "word", value |-> <<"a">>, position |-> 0],
                      [type |-> "word", value |-> <<"a">>, position |-> 3] >>
    /\ errors = <<SyntaxError(1, <<"~">>)>>

-----------------------------------------------------------------------------
\* toks[a..b] is a maximal run of two or more operator tokens
OperatorRun(toks, a, b) ==
    /\ a < b
    /\ \A j \in a .. b : toks[j].type = "operator"
    /\ TypeAt(toks, a - 1) # "operator" /\ TypeAt(toks, b + 1) # "operator"

\* The operator tokens of toks that stem from raw[a..b]
SurvivorsOf(toks, raw, a, b) ==
    LET ofRun(t) == t.type = "operator" /\ \E j \in a .. b : raw[j].position = t.position
    IN  SelectSeq(toks, ofRun)

QHelloAndOrWorld ==
    <<"h", "e", "l", "l", "o", " ", "A", "N", "D", " ", "O", "R", " ", "w", "o", "r", "l", "d">>

\* C12: the clean-up pass reduces every run of two or more consecutive
\* operator tokens to exactly one operator token, the first of the run;
\* hello AND OR world keeps AND and is parsed as AND(hello, world).
C12_FirstOperatorSurvives ==
    /\ Tokenized =>
          \A a, b \in DOMAIN rawTokens :
              OperatorRun(rawTokens, a, b) =>
                  SurvivorsOf(tokens, rawTokens, a, b) = <<rawTokens[a]>>
    /\ (Built /\ input = QHelloAndOrWorld /\ options = NoOptions) =>
          ast = BinaryNode(AND, Word(<<"h", "e", "l", "l", "o">>, 0),
                                Word(<<"w", "o", "r", "l", "d">>, 13))

\* C13: after the clean-up pass no open_paren is immediately followed by a
\* close_paren, and a negation token directly before an empty group is
\* dropped with it.
C13_NoEmptyGroup ==
    Tokenized =>
        /\ \A i \in DOMAIN tokens :
              ~(tokens[i].type = "open_paren" /\ TypeAt(tokens, i + 1) = "close_paren")
        /\ \A i \in DOMAIN rawTokens :
              (/\ rawTokens[i].type = "negation"
               /\ TypeAt(rawTokens, i + 1) = "open_paren"
               /\ TypeAt(rawTokens, i + 2) = "close_paren") =>
                  \A j \in DOMAIN tokens : tokens[j] # rawTokens[i]

\* C14: after the clean-up pass no operator token is immediately followed
\* by an operator or a close_paren, and none immediately follows an
\* open_paren.
C14_NoDanglingOperator ==
    Tokenized =>
        \A i \in DOMAIN tokens :
            /\ tokens[i].type = "operator" =>
                  TypeAt(tokens, i + 1) \notin {"operator", "close_paren"}
            /\ tokens[i].type = "open_paren" => TypeAt(tokens, i + 1) # "operator"

-----------------------------------------------------------------------------
\* A decimal number literal: optional minus, digits, optional fraction
IsNumberLiteral(s) ==
    LET u == IF s # <<>> /\ s[1] = "-" THEN Tail(s) ELSE s
    IN  /\ u # <<>>
        /\ \A i \in DOMAIN u : u[i] \in Digits \cup {"."}
        /\ Cardinality({i \in DOMAIN u : u[i] = "."}) <= 1
        /\ u[1] # "." /\ u[Len(u)] # "."

\* The query is key, comparator, number literal, the comparator being
\* query[i+1..j]
IsNumberComparison(q, i, j) ==
    /\ 0 < i /\ i < j /\ j < Len(q)
    /\ \A h \in 1 .. i : q[h] \in WordChars
    /\ Slice(q, i, j) \in Comparators
    /\ IsNumberLiteral(Slice(q, j, Len(q)))

\* C15: for any key and any decimal number literal N, with any number of
\* digits, each of key:N, key=N, key>N, key<N, key>=N, key<=N yields exactly
\* one token, a keyword_numeric with value N and the operator as written
\* (`:` as `=`), and nothing else.
C15_NumberComparison ==
    Tokenized =>
        \A i, j \in DOMAIN query :
            (IsNumberComparison(query, i, j) /\ ~KeyRejected(options, Slice(query, 0, i))) =>
                /\ tokens =
                      << [type |-> "keyword_numeric", key |-> Slice(query, 0, i),
                          operator |-> NumericOp(Slice(query, i, j)),
                          value |-> parseFloat(Slice(query, j, Len(query))),
                          position |-> 0] >>
                /\ errors = <<>>

-----------------------------------------------------------------------------
\* The date literal of a comparison
LiteralOf(m) == FirstTruthy(<<m.groups.dateValue, m.groups.monthValue, m.groups.yearValue>>)

\* A comparison of a key that is accepted with a date literal
IsDateComparison(opts, m) ==
    /\ m.groups.keywordNumeric # <<>> /\ LiteralOf(m) # <<>>
    /\ ~KeyRejected(opts, m.groups.keywordNumeric)

\* A literal without time: yyyy, yyyy-mm or yyyy-mm-dd
IsCoarse(lit) == Len(lit) \in {4, 7, 10}

LitYear(lit) == DigitsValue(SubSeq(lit, 1, 4))
LitMonth(lit) == IF Len(lit) >= 7 THEN DigitsValue(SubSeq(lit, 6, 7)) ELSE 1
LitDay(lit) == IF Len(lit) >= 10 THEN DigitsValue(SubSeq(lit, 9, 10)) ELSE 1

\* The month and the day of the literal exist
LitExists(lit) ==
    /\ LitMonth(lit) \in 1 .. 12
    /\ LitDay(lit) \in 1 .. DaysInMonth(LitYear(lit), LitMonth(lit))

\* The first instant of the period a coarse literal names
PeriodStart(lit) ==
    [y |-> LitYear(lit), mo |-> LitMonth(lit), d |-> LitDay(lit), ms |-> 0, zone |-> "utc"]

\* The last millisecond of the period: of the day, of the last day of the
\* month, of the 31st of December
PeriodLast(lit) ==
    [y |-> LitYear(lit),
     mo |-> IF Len(lit) = 4 THEN 12 ELSE LitMonth(lit),
     d |-> IF Len(lit) = 4 THEN 31
            ELSE IF Len(lit) = 7 THEN DaysInMonth(LitYear(lit), LitMonth(lit))
            ELSE LitDay(lit),
     ms |-> MsPerDay - 1, zone |-> "utc"]

TokensAt(toks, position) ==
    LET here(t) == t.position = position IN SelectSeq(toks, here)

DateTok(m, op, v) ==
    [type |-> "keyword_date", key |-> m.groups.keywordNumeric, operator |-> op,
     value |-> v, position |-> m.index]

LT == <<"<">>
GT == <<">">>
EQ == <<"=">>

\* What C16 says of the tokens ts of the comparison m
DateComparisonTokens(m, lit, op, ts) ==
    /\ (IsCoarse(lit) /\ LitExists(lit) /\ op \in {LT, GE}) =>
          ts = <<DateTok(m, op, PeriodStart(lit))>>
    /\ (IsCoarse(lit) /\ LitExists(lit) /\ op \in {LE, GT}) =>
          ts = <<DateTok(m, op, PeriodLast(lit))>>
    /\ (IsCoarse(lit) /\ LitExists(lit) /\ op = EQ) =>
          /\ Len(ts) = 4
          /\ ts[1].type = "open_paren" /\ ts[4].type = "close_paren"
          /\ ts[2] = DateTok(m, GE, PeriodStart(lit))
          /\ ts[3] = DateTok(m, LE, PeriodLast(lit))
    /\ (~IsCoarse(lit) /\ ~IsInvalid(NewDate(lit)) /\ op = EQ) =>
          ts = <<DateTok(m, EQ, NewDate(lit))>>

\* C16: a date comparison on a date-only, month-only or year-only literal
\* whose period is [start, end], end being the start of the next period
\* minus one millisecond, yields one keyword_date token with value start
\* for < and >=, one with value end for <= and >, and open_paren,
\* keyword_date >= start, keyword_date <= end, close_paren for = and :,
\* while = or : on a timestamp with a time yields a single keyword_date
\* token with operator =.
C16_DateComparison ==
    JustTokenized =>
        \A m \in Elements(Matches(query)) :
            IsDateComparison(options, m) =>
                DateComparisonTokens(m, LiteralOf(m), NumericOp(m.groups.operator),
                                     TokensAt(tokens, m.index))

QAfterLastDay == <<"d", ">", "2", "0", "2", "3", "-", "1", "2", "-", "3", "1">>

\* C16 witness: d>2023-12-31 has yielded the one token > the last
\* millisecond of that day
C16_Witness ==
    /\ Returned /\ input = QAfterLastDay
    /\ result.tokens =
          << [type |-> "keyword_date", key |-> KeyD, operator |-> GT,
              value |-> [y |-> 2023, mo |-> 12, d |-> 31, ms |-> 86399999, zone |-> "utc"],
              position |-> 0] >>

-----------------------------------------------------------------------------
\* A term that is emitted as a date group: a date range, or = or : with a
\* coarse date, the key accepted and the dates existing
IsDateGroupTerm(opts, m) ==
    \/ IsRangeTerm(opts, m) /\ m.groups.numeric1 = <<>>
    \/ /\ IsDateComparison(opts, m)
       /\ IsCoarse(LiteralOf(m)) /\ LitExists(LiteralOf(m))
       /\ NumericOp(m.groups.operator) = EQ

\* The key of a term that is emitted as a date group
DateGroupKey(m) == FirstTruthy(<<m.groups.keywordRange, m.groups.keywordNumeric>>)

\* The token list without the parentheses made up for date groups
Unwrapped(toks) ==
    LET idx == {i \in DOMAIN toks : ~Synthetic(toks, i)}
        nth(k) == CHOOSE i \in idx : Cardinality({j \in idx : j < i}) = k - 1
    IN  [k \in 1 .. Cardinality(idx) |-> toks[nth(k)]]

\* node is the AND of the two bounds emitted at position
IsBoundsNode(node, position) ==
    /\ node.type = "binary" /\ node.operator = AND
    /\ node.left.type = "condition" /\ node.left.token = "keyword_date"
    /\ node.left.position = position /\ node.left.operator = GE
    /\ node.right.type = "condition" /\ node.right.token = "keyword_date"
    /\ node.right.position = position /\ node.right.operator = LE

RECURSIVE Subtrees(_)
\* A tree's nodes, one after the other
Subtrees(node) ==
    IF node = Null THEN <<>>
    ELSE IF node.type = "binary" THEN <<node>> \o Subtrees(node.left) \o Subtrees(node.right)
    ELSE <<node>>

\* Some node of the tree is the AND of the two bounds emitted at position,
\* negated if asked
HasBoundsNode(tree, position, negated) ==
    \E i \in DOMAIN Subtrees(tree) :
        /\ IsBoundsNode(Subtrees(tree)[i], position)
        /\ negated => NodeNegated(Subtrees(tree)[i])

\* The four tokens ts of the date group of m, after the tokens before
DateGroupEmitted(m, ts, before) ==
    /\ Len(ts) = 4
    /\ ts[1].type = "open_paren" /\ ts[4].type = "close_paren"
    /\ ts[2].type = "keyword_date" /\ ts[2].operator = GE /\ ts[2].key = DateGroupKey(m)
    /\ ts[3].type = "keyword_date" /\ ts[3].operator = LE /\ ts[3].key = DateGroupKey(m)
    /\ TokenNegated(ts[1]) <=> LastIsNegation(before)
    /\ LastIsNegation(before) =>
          \A j \in DOMAIN rawTokens : rawTokens[j] # before[Len(before)]

\* The date group of m in the tree and in the conditions of the result
DateGroupBuilt(m, negated) ==
    /\ (FlatTerms(Unwrapped(result.tokens))
          \/ \E i \in DOMAIN Leaves(result.ast) : Leaves(result.ast)[i].position = m.index) =>
          HasBoundsNode(result.ast, m.index, negated)
    /\ FlatTerms(Unwrapped(result.tokens)) =>
          Len(ConditionsAt(result.astConditions, m.index)) = 2
    /\ negated =>
          \A i \in DOMAIN result.astConditions :
              result.astConditions[i].position = m.index
                  => result.astConditions[i].isNegated

QWordOrYear == <<"a", " ", "o", "r", " ", "d", ":", "2", "0", "2", "4">>
QWordOrNotYear == <<"a", " ", "o", "r", " ", "-", "d", ":", "2", "0", "2", "4">>

Year2024Bounds ==
    BinaryNode(AND,
        [type |-> "condition", token |-> "keyword_date", key |-> KeyD, operator |-> GE,
         value |-> [y |-> 2024, mo |-> 1, d |-> 1, ms |-> 0, zone |-> "utc"],
         position |-> 5],
        [type |-> "condition", token |-> "keyword_date", key |-> KeyD, operator |-> LE,
         value |-> [y |-> 2024, mo |-> 12, d |-> 31, ms |-> 86399999, zone |-> "utc"],
         position |-> 5])

-----------------------------------------------------------------------------
\* The value of a condition node is not falsy: not the number 0, not the
\* empty string; a Date object never is
HasValue(node) ==
    IF node.token = "keyword_date" THEN TRUE
    ELSE IF node.token = "keyword_numeric" THEN node.value # 0
    ELSE Len(node.value) > 0

\* The field f is copied from the node n to the condition c, absent when
\* the node has none
Copied(c, n, f) ==
    IF f \in DOMAIN n THEN f \in DOMAIN c /\ c[f] = n[f] ELSE f \notin DOMAIN c

\* The condition c is the ASTCondition of the node n as C18 describes it
ConditionOfNode(c, n) ==
    /\ c.isRegex <=> n.token \in {"regex", "keyword_regex"}
    /\ c.isNumeric <=> n.token = "keyword_numeric"
    /\ c.isDate <=> n.token = "keyword_date"
    /\ Cardinality({f \in {"isRegex", "isNumeric", "isDate"} : c[f]}) <= 1
    /\ Copied(c, n, "key") /\ Copied(c, n, "value")
    /\ Copied(c, n, "operator") /\ Copied(c, n, "position")

\* The conditions cs are those of the nodes ns, one for one
ConditionsOfNodes(cs, ns) ==
    /\ Len(cs) = Len(ns)
    /\ \A i \in DOMAIN ns : ConditionOfNode(cs[i], ns[i])

QRangeFromZero == <<"k", ":", "0", ".", ".", "1", ".", "5">>

-----------------------------------------------------------------------------
\* The condition c is the condition of the token t
ConditionOfToken(c, t) ==
    /\ t.type \in ConditionTokens
    /\ c.position = t.position
    /\ c.isNumeric <=> t.type = "keyword_numeric"
    /\ c.isDate <=> t.type = "keyword_date"
    /\ c.isRegex <=> t.type \in {"regex", "keyword_regex"}
    /\ c.value = t.value
    /\ Copied(c, t, "key") /\ Copied(c, t, "operator")

RECURSIVE InTokenOrder(_, _)
\* The conditions cs are conditions of tokens of ts, in the order of ts
InTokenOrder(cs, ts) ==
    IF cs = <<>> THEN TRUE
    ELSE IF ts = <<>> THEN FALSE
    ELSE IF ConditionOfToken(cs[1], ts[1]) THEN InTokenOrder(Tail(cs), Tail(ts))
    ELSE InTokenOrder(cs, Tail(ts))

\* The positions of a list of conditions or nodes
Positions(cs) == [i \in DOMAIN cs |-> cs[i].position]

\* C19: astConditions lists the leaf conditions in the left-to-right order
\* of the tree, left subtree before right subtree, which is the order of
\* their tokens in the token list; so the positions in astConditions never
\* decrease.
C19_SourceOrder ==
    Returned =>
        /\ Positions(result.astConditions)
              = Positions(SelectSeq(Leaves(result.ast), HasValue))
        /\ InTokenOrder(result.astConditions, result.tokens)
        /\ \A i, j \in DOMAIN result.astConditions :
              i < j => result.astConditions[i].position <= result.astConditions[j].position

\* C19 witness: foo AND bar OR baz has returned its three conditions in
\* the order of the query
C19_Witness ==
    /\ Returned /\ input = QFooAndBarOrBaz /\ options = NoOptions
    /\ result.ast.type = "binary" /\ result.ast.left.type = "binary"
    /\ Positions(result.astConditions) = <<0, 8, 15>>

-----------------------------------------------------------------------------
RECURSIVE Fields(_)
\* The maximal runs of non-whitespace characters of a string, in order
Fields(str) ==
    IF str = <<>> THEN <<>>
    ELSE IF str[1] \in Whitespace THEN Fields(Tail(str))
    ELSE LET n == CHOOSE k \in 1 .. Len(str) :
                    /\ \A i \in 1 .. k : str[i] \notin Whitespace
                    /\ (k = Len(str) \/ str[k + 1] \in Whitespace)
         IN  <<SubSeq(str, 1, n)>> \o Fields(SubSeq(str, n + 1, Len(str)))

\* The string with every run of whitespace replaced by one space and
\* without leading and trailing whitespace
NormalForm(str) == Join(Fields(str), <<" ">>)

QPhraseTab == <<"x", ":", "\"", "a", " ", "\t", "b", "\"">>
QPhraseSpace == <<"x", ":", "\"", "a", " ", "b", "\"">>

\* C20: metadata.originalQuery is the input with every run of whitespace
\* replaced by one space and leading and trailing whitespace removed;
\* normalizing it again changes nothing; and two inputs with the same
\* normalized form, also when they differ in the whitespace inside a quoted
\* phrase, produce the same tokens, ast and astConditions.
C20_Normalization ==
    Returned =>
        /\ result.metadata.originalQuery = NormalForm(input)
        /\ normalizeQuery(result.metadata.originalQuery) = result.metadata.originalQuery
        /\ (memo # Null /\ NormalForm(memo.input) = NormalForm(input)) =>
              /\ memo.result.tokens = result.tokens
              /\ memo.result.ast = result.ast
              /\ memo.result.astConditions = result.astConditions
              /\ memo.result.metadata.originalQuery = result.metadata.originalQuery

\* C20 witness: the phrase written with a space and a tab and the phrase
\* written with one space have been parsed on one instance, in this order,
\* with the same non-empty result
C20_Witness ==
    /\ Returned /\ memo # Null
    /\ memo.input = QPhraseTab /\ input = QPhraseSpace
    /\ result.metadata.originalQuery = QPhraseSpace
    /\ memo.result.tokens = result.tokens /\ Len(result.tokens) = 1
    /\ result.tokens[1].value = <<"a", " ", "b">>

-----------------------------------------------------------------------------
(* C21                                                                     *)

\* The token kind a keyless term gets under a default key
PromotedKind(g) ==
    IF g.value # <<>> THEN "keyword"
    ELSE IF g.quote # <<>> THEN "keyword_phrase" ELSE "keyword_regex"

QPhrasePipe == <<"\"", "a", " ", "b", "\"", " ", "|">>

\* C21: with defaultKey configured, every keyless word, phrase and regex is
\* scanned as a keyword, keyword_phrase or keyword_regex token whose key is
\* defaultKey; a bare word spelling AND, OR, & or | in any letter case is
\* still scanned as an operator; a term with an explicit key keeps that key.
C21_DefaultKey ==
    (JustTokenized /\ options.defaultKey # <<>>) =>
        \A m \in Elements(Matches(query)) :
            LET g == m.groups
                at == TokensAt(rawTokens, m.index)
                text == FirstTruthy(<<g.value, g.quote, g.regex>>)
                upper == ToUpperCase(g.value)
            IN  /\ ExplicitKey(m) # <<>> =>
                      \A j \in DOMAIN at : "key" \in DOMAIN at[j] => at[j].key = ExplicitKey(m)
                /\ (text # <<>> /\ g.keyword = <<>>) =>
                      IF g.value # <<>> /\ upper \in {<<"A", "N", "D">>, <<"O", "R">>, <<"&">>, <<"|">>}
                          THEN at = <<[type |-> "operator", value |-> upper, position |-> m.index]>>
                          ELSE at = <<[type |-> PromotedKind(g), key |-> options.defaultKey,
                                       value |-> text, position |-> m.index]>>

\* C21 witness: "a b" | has been scanned under the default key d: the
\* phrase is a keyword_phrase with key d and the bar is an operator
C21_Witness ==
    /\ JustTokenized
    /\ options.defaultKey = KeyD
    /\ input = QPhrasePipe
    /\ rawTokens = <<[type |-> "keyword_phrase", key |-> KeyD, value |-> <<"a", " ", "b">>, position |-> 0],
                     [type |-> "operator", value |-> <<"|">>, position |-> 6]>>

-----------------------------------------------------------------------------
(* C25                                                                     *)

QDoubleNegation == <<"-", " ", "-", "a">>
QNegatedInNegatedGroup == <<"-", "(", "-", "a", ")">>

\* The tree and the conditions of the single term a, negated
NegatedLeaf(tree, conds) ==
    /\ tree.type = "condition" /\ tree.value = <<"a">>
    /\ NodeNegated(tree)
    /\ Len(conds) = 1
    /\ conds[1].value = <<"a">> /\ conds[1].isNegated

\* C25: the negated flag is only ever set, never toggled or cleared: when
\* the tokens are one or more negation markers followed by one term, the
\* node is negated and its condition has isNegated = true; - -a and -(-a)
\* both give the leaf a with negated = true and isNegated = true.
C25_NegationOnlySet ==
    Returned =>
        /\ ( /\ Len(result.tokens) >= 2
             /\ result.tokens[Len(result.tokens)].type \in ConditionTokens
             /\ \A i \in 1 .. Len(result.tokens) - 1 : result.tokens[i].type = "negation" )
              => ( /\ result.ast # Null
                   /\ NodeNegated(result.ast)
                   /\ Len(result.astConditions) = 1
                   /\ result.astConditions[1].isNegated )
        /\ (input \in {QDoubleNegation, QNegatedInNegatedGroup} /\ options = NoOptions)
              => NegatedLeaf(result.ast, result.astConditions)

-----------------------------------------------------------------------------
(* C26                                                                     *)

\* The condition-bearing tokens of a token list, in order
ConditionBearing(toks) ==
    LET bears(t) == t.type \in ConditionTokens IN SelectSeq(toks, bears)

\* The leaf n carries the kind, key, value, operator and position of the token t
LeafOfToken(n, t) ==
    /\ n.type = "condition"
    /\ n.token = t.type
    /\ n.position = t.position
    /\ n.value = t.value
    /\ Copied(n, t, "key") /\ Copied(n, t, "operator")

\* C26: the tree builder drops no condition: the tree has as many leaves as
\* the returned token list has condition-bearing tokens (word, phrase,
\* regex, keyword, keyword_phrase, keyword_regex, keyword_numeric,
\* keyword_date), and the k-th leaf carries the kind, key, value, operator
\* and position of the k-th such token.
C26_NoConditionDropped ==
    Returned =>
        LET leaves == Leaves(result.ast)
            bearing == ConditionBearing(result.tokens)
        IN  /\ Len(leaves) = Len(bearing)
            /\ \A k \in DOMAIN leaves : LeafOfToken(leaves[k], bearing[k])

-----------------------------------------------------------------------------
(* C27                                                                     *)

\* The term at offset p of q comes right after a negation marker, one
\* space at most between them
MarkerBefore(q, p) ==
    \/ At(q, p - 1) \in {"-", "!"}
    \/ At(q, p - 1) = " " /\ At(q, p - 2) \in {"-", "!"}

\* The token at index j lies inside a negated group: after its open_paren
\* and before the matching close_paren, if there is one
InNegatedGroup(toks, j) ==
    \E i \in 1 .. (j - 1) :
        /\ NegatedGroupAt(toks, i)
        /\ HasClose(toks, i) => j < CloseOf(toks, i)

QMarkerSkippedWord == <<"-", "~", " ", "a">>

\* C27: a leaf condition has isNegated = true only if its own term comes
\* right after a negation marker in the query or lies inside a negated
\* group; a marker whose operand left no token (skipped as a syntax error
\* or dropped as an unparsable literal) does not negate the term after it.
C27_NegationOwnTerm ==
    Returned =>
        \A n \in DOMAIN result.astConditions :
            LET c == result.astConditions[n]
            IN  c.isNegated =>
                    \/ MarkerBefore(query, c.position)
                    \/ \E j \in DOMAIN result.tokens :
                          /\ result.tokens[j].type \in ConditionTokens
                          /\ result.tokens[j].position = c.position
                          /\ InNegatedGroup(result.tokens, j)

-----------------------------------------------------------------------------
(* C28                                                                     *)

\* C28: for an empty or whitespace-only query, parse reports no error:
\* metadata.errors is empty and metadata.hasErrors is false, and tokens is
\* empty, ast is null and astConditions is empty.
C28_EmptyQueryNoError ==
    (Returned /\ \A i \in DOMAIN input : input[i] \in Whitespace) =>
        /\ result.metadata.errors = <<>>
        /\ ~result.metadata.hasErrors
        /\ result.tokens = <<>>
        /\ result.ast = Null
        /\ result.astConditions = <<>>

-----------------------------------------------------------------------------
(* C29                                                                     *)

QNegatedNumericRange == <<"-", "p", "r", "i", "c", "e", ":", "1", "0", ".", ".", "2", "0">>

\* The match m is a negation marker that ends where the match n begins
MarkerOf(m, n) == m.groups.negation # <<>> /\ m.end = n.index

\* C29: a negation marker directly before a numeric range negates the
\* whole range: the two bound conditions of the range, >= lower and
\* <= upper, both have isNegated = true in astConditions; so do the two
\* conditions of -price:10..20.
C29_NegatedNumericRange ==
    Returned =>
        /\ \A m, n \in Elements(Matches(query)) :
              (n.groups.numeric1 # <<>> /\ n.groups.numeric2 # <<>> /\ MarkerOf(m, n)) =>
                  LET bounds == ConditionsAt(result.astConditions, n.index)
                  IN  \A k \in DOMAIN bounds : bounds[k].isNegated
        /\ (input = QNegatedNumericRange /\ options = NoOptions) =>
              /\ Len(result.astConditions) = 2
              /\ result.astConditions[1].isNegated
              /\ result.astConditions[2].isNegated

-----------------------------------------------------------------------------
(* C22                                                                     *)

Filtered == pc = "filtered"

\* The tree of the query q under the options of the instance
TreeOf(q) == buildAST(Tokenize(options, normalizeQuery(q)).tokens)

\* The records filter returns for the query q on the data of the instance
FilterOf(q) == filter(options, adapter.data, TreeOf(q))

\* The item is returned for the query q
Matching(q, item) == filter(options, <<item>>, TreeOf(q)) = <<item>>

\* The records of the data that match both terms, and either term
MatchingBoth(a, b) ==
    LET both(item) == Matching(a, item) /\ Matching(b, item) IN SelectSeq(adapter.data, both)

MatchingEither(a, b) ==
    LET either(item) == Matching(a, item) \/ Matching(b, item) IN SelectSeq(adapter.data, either)

\* C22: filter gives the symbolic operators the meaning of their word
\* forms: for all terms a and b and every data set, a & b returns the
\* records a AND b returns, those matching both terms, and a | b returns
\* the records a OR b returns, those matching either.
C22_SymbolicOperators ==
    Filtered =>
        \A a, b \in JSONTerms :
            /\ input = a \o <<" ", "&", " ">> \o b =>
                  /\ output = FilterOf(a \o <<" ", "A", "N", "D", " ">> \o b)
                  /\ output = MatchingBoth(a, b)
            /\ input = a \o <<" ", "|", " ">> \o b =>
                  /\ output = FilterOf(a \o <<" ", "O", "R", " ">> \o b)
                  /\ output = MatchingEither(a, b)

-----------------------------------------------------------------------------
(* C23                                                                     *)

Parsed == pc = "parsed"

\* How many conditions of the list conds are at the position of the leaf n
CountAt(conds, n) == Len(ConditionsAt(conds, n.position))

\* The leaf n is a sort condition that conditions.sorted reports
InSorted(sorted, n) ==
    /\ "key" \in DOMAIN n /\ n.key \in {KeyAsc, KeyDesc}
    /\ \E i \in DOMAIN sorted : sorted[i].dir = n.key /\ sorted[i].key = n.value

\* In how many of the three lists the leaf n is reported
Reports(conditions, n) ==
    CountAt(conditions.filtered, n) + CountAt(conditions.excluded, n)
        + (IF InSorted(conditions.sorted, n) THEN 1 ELSE 0)

QRejectedThenSort == <<"y", ":", "x", " ", "a", "s", "c", ":", "x">>

\* C23: every leaf condition of the tree is reported in exactly one of
\* conditions.filtered (filterFn returned a fragment), conditions.sorted
\* (an asc/desc condition that orderFn accepted) and conditions.excluded
\* (every other condition): none is missing from all three and none is
\* listed twice.
C23_ConditionPartition ==
    Parsed =>
        \A k \in DOMAIN Leaves(output.ast) :
            LET n == Leaves(output.ast)[k]
            IN  /\ Reports(output.conditions, n) = 1
                /\ CountAt(output.conditions.filtered, n) = 1
                      <=> ("key" \in DOMAIN n /\ n.key \in adapter.filterKeys)
                /\ InSorted(output.conditions.sorted, n)
                      => (adapter.hasOrderFn /\ n.value \in adapter.orderKeys)

-----------------------------------------------------------------------------
(* C24                                                                     *)

RECURSIVE CombinatorKeys(_)
\* The combinator keys of a where object, outermost first
CombinatorKeys(clause) ==
    IF clause.type # "object" THEN <<>>
    ELSE LET RECURSIVE ofArgs(_)
             ofArgs(i) ==
                 IF i > Len(clause.args) THEN <<>>
                 ELSE CombinatorKeys(clause.args[i]) \o ofArgs(i + 1)
         IN  <<clause.key>> \o ofArgs(1)

\* The ParseResult of the query q under the options of the instance
ParseOf(q) ==
    LET t == Tokenize(options, normalizeQuery(q))
    IN  ParseResult(t.tokens, buildAST(t.tokens), normalizeQuery(q), t.errors)

\* The where object parse returns for the query q
WhereOf(q) == parse(adapter, ParseOf(q)).where

\* The terms of the queries that filterFn accepts
Filterable == { <<"x", ":", "a">>, <<"y", ":", "x">> }

\* C24: the where expression is composed only with the combinators AND, OR
\* and NOT: every combinator key of the returned where object is one of
\* the three, and two filterable conditions joined with & (resp. |) give
\* the where object they give joined with AND (resp. OR).
C24_WhereCombinators ==
    Parsed =>
        /\ \A i \in DOMAIN CombinatorKeys(output.where) :
              CombinatorKeys(output.where)[i] \in {<<"A", "N", "D">>, <<"O", "R">>, KeyNot}
        /\ \A a, b \in Filterable :
              /\ input = a \o <<" ", "&", " ">> \o b =>
                    output.where = WhereOf(a \o <<" ", "A", "N", "D", " ">> \o b)
              /\ input = a \o <<" ", "|", " ">> \o b =>
                    output.where = WhereOf(a \o <<" ", "O", "R", " ">> \o b)

-----------------------------------------------------------------------------
(* C30                                                                     *)

Finished == pc = "finished"

\* The steps agree with the clean-up pass and the builder taken as a whole
StepsAgree == Finished => (tokens = Cleanup(rawTokens) /\ ast = buildAST(tokens))

\* C30: for every finite token list, the clean-up pass and the tree builder
\* both terminate; the cursor of the builder never moves backwards, and
\* every step of the clean-up pass that changes the token list makes it
\* strictly shorter.
C30_Termination ==
    /\ [][cursor' >= cursor]_vars
    /\ [][tokens' # tokens => Len(tokens') < Len(tokens)]_vars
    /\ <>Finished

\* C30 witness: the list negation, (, ), word has been cleaned up to the
\* word alone, empty group and negation removed, and the builder has
\* returned its leaf with the cursor past the end
C30_Witness ==
    /\ Finished
    /\ [k \in DOMAIN rawTokens |-> rawTokens[k].type] = <<"negation", "open_paren", "close_paren", "word">>
    /\ [k \in DOMAIN tokens |-> tokens[k].type] = <<"word">>
    /\ ast = ConditionNode(tokens[1])
    /\ cursor = 1

=============================================================================
